---- MODULE Spec2Model ----
(***************************************************************************)
(* A model of the EBNF compiler ebnfcomp: the character reader, the        *)
(* recursive-descent parser, the literal deduplication pass, the           *)
(* numbering and layout passes and the two emitters (C and NASM).          *)
(*                                                                         *)
(* Characters are their ASCII codes, strings are sequences of codes, and   *)
(* tree nodes live in a heap indexed by address (0 is the null pointer).   *)
(***************************************************************************)
EXTENDS Integers, Sequences, FiniteSets, TLC

\* ------------------------------------------------------------------------
\* Characters
\* ------------------------------------------------------------------------

\* The printable ASCII characters in code order, starting at code 32; the
\* double quote and the back quote are written by name.
Ascii ==
    << " ", "!", "dquote", "#", "$", "%", "&", "'", "(", ")", "*", "+", ",", "-",
       ".", "/", "0", "1", "2", "3", "4", "5", "6", "7", "8", "9", ":", ";",
       "<", "=", ">", "?", "@", "A", "B", "C", "D", "E", "F", "G", "H", "I",
       "J", "K", "L", "M", "N", "O", "P", "Q", "R", "S", "T", "U", "V", "W",
       "X", "Y", "Z", "[", "\\", "]", "^", "_", "bquote", "a", "b", "c", "d", "e",
       "f", "g", "h", "i", "j", "k", "l", "m", "n", "o", "p", "q", "r", "s",
       "t", "u", "v", "w", "x", "y", "z", "{", "|", "}", "~" >>

\* The code of a one-character string.
Ord(c) ==
    LET index(table) == CHOOSE i \in 1..Len(table) : table[i] = c
    IN 31 + index(Ascii)

\* The C string (sequence of codes) written as a tuple of one-character
\* strings.
Str(cs) == [i \in 1..Len(cs) |-> Ord(cs[i])]

EOF == -1

\* A null char pointer (node->text == 0), distinct from every C string.
NULLSTR == << EOF >>

\* ------------------------------------------------------------------------
\* Tokens and nodes
\* ------------------------------------------------------------------------

T_EOS == 0
T_IDENTIFIER == 1
T_STR_LITERAL == 2
T_REG_EX == 3
T_BRACK_EXPR == 4
T_BRACE_EXPR == 5
T_AND_EXPR == 6
T_OR_EXPR == 7
T_EXPR == 8
T_PRODUCTION == 9
T_PROD_LIST == 10
T_BIN_DATA == 11
T_BIN_FIELD == 12
T_BIN_FIELD_COUNT == 13
T_BIN_FIELD_TIMES == 14

TB_UNDEF == 0
TB_DATA == 1
TB_BYTE == 2
TB_WORD == 3
TB_DWORD == 4
TB_QWORD == 5
TBF_PARAM == 16
TBF_WRITE == 32

token2text(token) ==
    CASE token = T_EOS -> "T_EOS"
      [] token = T_IDENTIFIER -> "T_IDENTIFIER"
      [] token = T_STR_LITERAL -> "T_STR_LITERAL"
      [] token = T_REG_EX -> "T_REG_EX"
      [] token = T_BRACK_EXPR -> "T_BRACK_EXPR"
      [] token = T_BRACE_EXPR -> "T_BRACE_EXPR"
      [] token = T_AND_EXPR -> "T_AND_EXPR"
      [] token = T_OR_EXPR -> "T_OR_EXPR"
      [] token = T_EXPR -> "T_EXPR"
      [] token = T_PRODUCTION -> "T_PRODUCTION"
      [] token = T_PROD_LIST -> "T_PROD_LIST"
      [] token = T_BIN_DATA -> "T_BIN_DATA"
      [] token = T_BIN_FIELD -> "T_BIN_FIELD"
      [] token = T_BIN_FIELD_COUNT -> "T_BIN_FIELD_COUNT"
      [] token = T_BIN_FIELD_TIMES -> "T_BIN_FIELD_TIMES"
      [] OTHER -> "?"

\* A treenode_t as create_node leaves it.
NewNode(token, text) ==
    [ token        |-> token,
      text         |-> text,
      branches     |-> << >>,
      exportIdent  |-> NULLSTR,
      nodeTypeEnum |-> NULLSTR,
      id           |-> -1,
      branchesIx   |-> -1,
      refCnt       |-> 1,
      freed        |-> FALSE ]

\* What delete_node leaves behind at the address of a node it has freed.
FreedNode(n) ==
    [ n EXCEPT !.token = T_EOS, !.text = NULLSTR, !.branches = << >>,
               !.exportIdent = NULLSTR, !.nodeTypeEnum = NULLSTR,
               !.id = -1, !.branchesIx = -1, !.freed = TRUE ]

\* ------------------------------------------------------------------------
\* The state of the reader and the parser.  The record s carries the
\* process-wide variables the front-end reads and writes:
\*   stdin   the unread part of standard input
\*   pbbuf   the putback buffer (pbpos = Len(pbbuf) - 1)
\*   ch, lno, chx, rngbuf, wpos, rpos, regex (repos = Len(regex))
\*   heap    the allocated nodes, by address
\*   err     the message of the report() that ended the process, or NoErr
\*   echo    what printrng wrote to stderr
\* ------------------------------------------------------------------------

NoErr == "-"

RngSize == 64

PbMax == 255

IsHalted(s) == s.err # NoErr

storech(s) ==
    [ s EXCEPT !.rngbuf[s.wpos] = s.ch,
               !.wpos = (s.wpos + 1) % RngSize ]

RECURSIVE printrng_loop(_, _, _, _)
printrng_loop(rngbuf, rpos, wpos, out) ==
    IF rpos = wpos THEN out
    ELSE printrng_loop(rngbuf, (rpos + 1) % RngSize, wpos,
                       Append(out, rngbuf[rpos]))

\* printrng: the characters echoed, and rpos moved up to wpos.
printrng(s) ==
    [ s EXCEPT !.echo = printrng_loop(s.rngbuf, s.rpos, s.wpos, << >>),
               !.rpos = s.wpos ]

\* putback stores (char) c; rdch0 reads it back as an unsigned char.
putback(s, c) ==
    IF Len(s.pbbuf) - 1 < PbMax
    THEN [ s EXCEPT !.pbbuf = Append(@, c % 256) ]
    ELSE s

rdch0(s) ==
    IF Len(s.pbbuf) - 1 >= 0
    THEN [ s |-> [ s EXCEPT !.pbbuf = SubSeq(@, 1, Len(@) - 1) ],
           c |-> s.pbbuf[Len(s.pbbuf)] ]
    ELSE IF s.stdin = << >>
         THEN [ s |-> s, c |-> EOF ]
         ELSE [ s |-> [ s EXCEPT !.stdin = Tail(@) ], c |-> Head(s.stdin) ]

\* ch = rdch0();
read_ch(s) ==
    LET assign(r) == [ r.s EXCEPT !.ch = r.c ] IN assign(rdch0(s))

\* The do-while that skips a "--" comment: reads until newline or EOF.
RECURSIVE rdch_comment(_)
rdch_comment(s) ==
    LET again(s1) == IF s1.ch # 10 /\ s1.ch # EOF THEN rdch_comment(s1)
                     ELSE s1
    IN again(read_ch(s))

RECURSIVE rdch_RETRY(_)
RECURSIVE rdch_REEVALUATE(_)
rdch_RETRY(s) == rdch_REEVALUATE(read_ch(s))

\* ++chx; storech();
rdch_count(s) == storech([ s EXCEPT !.chx = @ + 1 ])

\* After a '-' the next character is in ch: anything but a second '-' is
\* put back and the '-' is delivered; a second '-' starts a comment.
rdch_minus(s) ==
    IF s.ch # 45
    THEN rdch_count([ putback(s, s.ch) EXCEPT !.ch = 45 ])
    ELSE rdch_REEVALUATE(rdch_comment(s))

\* The tests on '\r', '\n' and '-' once the line number is set.
rdch_line(s) ==
    IF s.ch = 13 THEN rdch_RETRY(s)
    ELSE IF s.ch = 10
    THEN rdch_RETRY([ s EXCEPT !.lno = @ + 1, !.chx = 0 ])
    ELSE IF s.ch = 45 THEN rdch_minus(read_ch(s))
    ELSE rdch_count(s)

rdch_REEVALUATE(s) ==
    IF s.ch = EOF THEN s
    ELSE rdch_line(IF s.lno = 0 THEN [ s EXCEPT !.lno = 1, !.chx = 0 ] ELSE s)

rdch(s) == IF IsHalted(s) THEN s ELSE rdch_RETRY(s)

\* report: the message, the echo of the ring buffer, exit( EXIT_FAILURE ).
report(s, msg) ==
    IF IsHalted(s) THEN s
    ELSE [ printrng(s) EXCEPT !.err = msg ]

\* if ( ch != c ) report( msg );
expect(s, c, msg) == IF s.ch # c THEN report(s, msg) ELSE s

\* if ( node == 0 ) report( msg );
expect_node(r, msg) == IF r.node = 0 THEN report(r.s, msg) ELSE r.s

\* if ( !ok ) report( msg );
expect_ok(r, msg) == IF ~r.ok THEN report(r.s, msg) ELSE r.s

RECURSIVE skip_whitespace(_)
skip_whitespace(s) ==
    IF IsHalted(s) THEN s
    ELSE IF s.ch = 32 \/ s.ch = 9 THEN skip_whitespace(rdch(s))
    ELSE s

\* ------------------------------------------------------------------------
\* Node operations on the heap
\* ------------------------------------------------------------------------

\* create_node: the new node's address is the next free heap index.
create_node(s, token, text) ==
    IF IsHalted(s) THEN [ s |-> s, node |-> 0 ]
    ELSE [ s |-> [ s EXCEPT !.heap = Append(@, NewNode(token, text)) ],
           node |-> Len(s.heap) + 1 ]

add_branch_heap(heap, node, branch) ==
    [ heap EXCEPT ![node].branches = Append(@, branch) ]

add_branch(s, node, branch) ==
    IF IsHalted(s) THEN s
    ELSE [ s EXCEPT !.heap = add_branch_heap(@, node, branch) ]

\* delete_node: drop one reference; at zero delete the branches from the
\* last to the first and free the node.
RECURSIVE delete_node_heap(_, _)
RECURSIVE delete_branches(_, _, _)
delete_branches(heap, branches, k) ==
    IF k = 0 THEN heap
    ELSE delete_branches(
            IF branches[k] # 0 THEN delete_node_heap(heap, branches[k])
            ELSE heap,
            branches, k - 1)

delete_node_heap(heap, node) ==
    LET free(h1) ==
            [ h1 EXCEPT ![node] = FreedNode([ h1[node] EXCEPT !.refCnt = 0 ]) ]
    IN IF heap[node].refCnt - 1 > 0
       THEN [ heap EXCEPT ![node].refCnt = @ - 1 ]
       ELSE free(delete_branches(heap, heap[node].branches,
                                 Len(heap[node].branches)))

delete_node(s, node) ==
    IF IsHalted(s) THEN s
    ELSE [ s EXCEPT !.heap = delete_node_heap(@, node) ]


\* node->branches[i] = branch (slots are numbered from 1 here)
set_branch(s, node, i, branch) ==
    IF IsHalted(s) THEN s
    ELSE [ s EXCEPT !.heap[node].branches[i] = branch ]

Ret(s, node) == [ s |-> s, node |-> node ]

RetOk(s, ok) == [ s |-> s, ok |-> ok ]

\* ------------------------------------------------------------------------
\* Lexical helpers
\* ------------------------------------------------------------------------

isxdigit(c) ==
    (c >= 48 /\ c <= 57) \/ (c >= 65 /\ c <= 70) \/ (c >= 97 /\ c <= 102)

IsIdentStart(c) == (c >= 48 /\ c <= 57) \/ (c >= 97 /\ c <= 122)

IsIdentChar(c) == IsIdentStart(c) \/ c = 45

IsUpper(c) == c >= 65 /\ c <= 90

TmpMax == 255

HexMax == 253

\* The while loop of read_hexadecimal on the reader r.s and the buffer
\* r.tmp, eight iterations to a step: an iteration after the loop has
\* ended changes nothing.
RECURSIVE read_hexadecimal_loop(_)
read_hexadecimal_loop(r) ==
    LET iter(q) ==
            IF isxdigit(q.s.ch)
            THEN [ s   |-> rdch(q.s),
                   tmp |-> IF Len(q.tmp) < HexMax
                           THEN Append(q.tmp, q.s.ch) ELSE q.tmp ]
            ELSE q
    IN IF isxdigit(r.s.ch)
       THEN read_hexadecimal_loop(
                iter(iter(iter(iter(iter(iter(iter(iter(r)))))))))
       ELSE r

\* read_hexadecimal lowering the digits it stores.
read_hexadecimal_lower(s) ==
    LET pad(tmp) == IF Len(tmp) % 2 = 1 THEN << 48 >> \o tmp ELSE tmp
        lower(tmp) ==
            [ i \in 1..Len(tmp) |->
                IF tmp[i] >= 65 /\ tmp[i] <= 90 THEN tmp[i] + 32 ELSE tmp[i] ]
        data(r) == create_node(r.s, T_BIN_DATA, lower(pad(r.tmp)))
    IN IF IsHalted(s) \/ s.ch # 36 THEN Ret(s, 0)
       ELSE data(read_hexadecimal_loop([ s |-> rdch(s), tmp |-> << >> ]))

\* read_hexadecimal without the leading '0' of an odd count.
read_hexadecimal_nopad(s) ==
    LET data(r) == create_node(r.s, T_BIN_DATA, r.tmp)
    IN IF IsHalted(s) \/ s.ch # 36 THEN Ret(s, 0)
       ELSE data(read_hexadecimal_loop([ s |-> rdch(s), tmp |-> << >> ]))

read_hexadecimal(s) ==
    LET pad(tmp) == IF Len(tmp) % 2 = 1 THEN << 48 >> \o tmp ELSE tmp
        data(r) == create_node(r.s, T_BIN_DATA, pad(r.tmp))
    IN IF IsHalted(s) \/ s.ch # 36 THEN Ret(s, 0)
       ELSE data(read_hexadecimal_loop([ s |-> rdch(s), tmp |-> << >> ]))

\* The do-while of read_identifier on the reader r.s and the buffer
\* r.tmp: the current character is stored whatever it is, then characters
\* are read while they are [a-z0-9-], eight iterations to a step, an
\* iteration after the loop has ended changing nothing.
RECURSIVE read_identifier_loop(_, _)
read_identifier_loop(r, first) ==
    LET body(q) ==
            [ s   |-> rdch(q.s),
              tmp |-> IF Len(q.tmp) < TmpMax THEN Append(q.tmp, q.s.ch % 256)
                      ELSE q.tmp ]
        iter(q) == IF IsIdentChar(q.s.ch) THEN body(q) ELSE q
    IN IF first THEN read_identifier_loop(body(r), FALSE)
       ELSE IF IsIdentChar(r.s.ch)
       THEN read_identifier_loop(
                iter(iter(iter(iter(iter(iter(iter(iter(r)))))))), FALSE)
       ELSE r

read_identifier(s) ==
    LET ident(r) == create_node(r.s, T_IDENTIFIER, r.tmp)
    IN IF IsHalted(s) THEN Ret(s, 0)
       ELSE ident(read_identifier_loop([ s |-> s, tmp |-> << >> ], TRUE))

\* The do-while of read_str_literal on the reader r.s and the buffer
\* r.tmp: its body once, then eight iterations to a step, an iteration
\* after the loop has ended changing nothing.
RECURSIVE read_str_literal_loop(_, _, _)
read_str_literal_loop(r, term, first) ==
    LET body(q) ==
            [ s   |-> rdch(q.s),
              tmp |-> IF q.s.ch # term /\ q.s.ch # EOF /\ Len(q.tmp) < TmpMax
                      THEN Append(q.tmp, q.s.ch) ELSE q.tmp ]
        iter(q) == IF q.s.ch # term /\ q.s.ch # EOF THEN body(q) ELSE q
    IN IF first THEN read_str_literal_loop(body(r), term, FALSE)
       ELSE IF r.s.ch # term /\ r.s.ch # EOF
       THEN read_str_literal_loop(
                iter(iter(iter(iter(iter(iter(iter(iter(r)))))))),
                term, FALSE)
       ELSE r

\* rdch() over the closing quote, the test for an empty literal, the node.
read_str_literal_close(r) ==
    LET literal(s1) ==
            create_node(IF Len(r.tmp) = 0
                        THEN report(s1, "string literal is empty") ELSE s1,
                        T_STR_LITERAL, r.tmp)
    IN literal(rdch(r.s))

read_str_literal(s) ==
    IF IsHalted(s) THEN Ret(s, 0)
    ELSE read_str_literal_close(
             read_str_literal_loop([ s |-> s, tmp |-> << >> ], s.ch, TRUE))

\* ------------------------------------------------------------------------
\* The regular expression sub-parser
\* ------------------------------------------------------------------------

store_regex_char(s, c) ==
    IF IsHalted(s) THEN s
    ELSE IF Len(s.regex) < TmpMax THEN [ s EXCEPT !.regex = Append(@, c) ]
    ELSE s

\* store_regex_char( c ); rdch();
store_rdch(s, c) == rdch(store_regex_char(s, c))

read_re_any(s) ==
    IF IsHalted(s) \/ s.ch # 46 THEN RetOk(s, FALSE)
    ELSE RetOk(store_rdch(s, 46), TRUE)

\* The character after a backslash: stored with the backslash, or the end
\* of the file.
read_re_escaped(s1) ==
    IF s1.ch = EOF THEN RetOk(report(s1, "unexpected end of file"), FALSE)
    ELSE RetOk(store_rdch(store_regex_char(s1, 92), s1.ch), TRUE)

read_re_chr(s) ==
    IF IsHalted(s) THEN RetOk(s, FALSE)
    ELSE IF s.ch = 92 THEN read_re_escaped(rdch(s))
    ELSE IF s.ch = EOF THEN RetOk(report(s, "unexpected end of file"), FALSE)
    ELSE IF s.ch \in { 47, 46, 42, 63, 91, 40, 124 } THEN RetOk(s, FALSE)
    ELSE RetOk(store_rdch(s, s.ch), TRUE)

read_re_cc_chr(s) ==
    IF IsHalted(s) THEN RetOk(s, FALSE)
    ELSE IF s.ch = 92 THEN read_re_escaped(rdch(s))
    ELSE IF s.ch = EOF THEN RetOk(report(s, "unexpected end of file"), FALSE)
    ELSE IF s.ch \in { 92, 93 } THEN RetOk(s, FALSE)
    ELSE RetOk(store_rdch(s, s.ch), TRUE)

\* if ( !ok || ch != c ) report( msg ); store_regex_char( c ); rdch();
read_re_close(r, c, msg) ==
    IF ~r.ok \/ r.s.ch # c THEN RetOk(report(r.s, msg), FALSE)
    ELSE RetOk(store_rdch(r.s, c), TRUE)

\* if ( ch == c ) { store_regex_char( c ); rdch(); }
read_re_opt(s, c) == IF s.ch = c THEN store_rdch(s, c) ELSE s

\* The optional '-' re-cc-chr after the first re-cc-chr of an item.
read_re_cc_rng(r) ==
    LET upper(r2) ==
            RetOk(expect_ok(r2, "bad character class in regular expression"),
                  r2.ok)
    IN IF ~r.ok THEN RetOk(r.s, FALSE)
       ELSE IF r.s.ch = 45 THEN upper(read_re_cc_chr(store_rdch(r.s, 45)))
       ELSE RetOk(r.s, TRUE)

read_re_cc_item(s) == read_re_cc_rng(read_re_cc_chr(s))

\* while ( read_re_cc_item() );
RECURSIVE read_re_cc_items_loop(_)
read_re_cc_items_loop(s) ==
    LET again(r) == IF r.ok THEN read_re_cc_items_loop(r.s) ELSE r.s
    IN again(read_re_cc_item(s))

\* if ( !first ) return false; while ( ... ); return true;
read_re_cc_items_rest(r) ==
    IF ~r.ok THEN RetOk(r.s, FALSE)
    ELSE RetOk(read_re_cc_items_loop(r.s), TRUE)

read_re_cc_items(s) == read_re_cc_items_rest(read_re_cc_item(s))

read_re_cc(s) ==
    IF IsHalted(s) \/ s.ch # 91 THEN RetOk(s, FALSE)
    ELSE read_re_close(
            read_re_cc_items(read_re_opt(store_rdch(s, 91), 94)), 93,
            "bad character class in regular expression")

RECURSIVE read_re_expr(_)
RECURSIVE read_re_base_expr(_)
RECURSIVE read_re_repeat_expr(_)
RECURSIVE read_re_and_expr(_)
RECURSIVE read_re_and_expr_loop(_)
RECURSIVE read_re_or_expr(_)
RECURSIVE read_re_or_expr_loop(_)

\* read_re_cc() || read_re_chr() ...
read_re_base_chr(r) == IF r.ok THEN r ELSE read_re_chr(r.s)

\* ... || read_re_any()
read_re_base_any(r) == IF r.ok THEN r ELSE read_re_any(r.s)

\* The parenthesised alternative of re-base-expr.
read_re_base_group(r) ==
    IF r.ok THEN r
    ELSE IF IsHalted(r.s) \/ r.s.ch # 40 THEN RetOk(r.s, FALSE)
    ELSE read_re_close(read_re_expr(store_rdch(r.s, 40)), 41,
                       "expression expected in regular expression")

read_re_base_expr(s) ==
    read_re_base_group(read_re_base_any(read_re_base_chr(read_re_cc(s))))

\* The optional '+', '*' or '?' after a re-base-expr.
read_re_repeat_op(r) ==
    IF ~r.ok THEN RetOk(r.s, FALSE)
    ELSE IF r.s.ch = 43 \/ r.s.ch = 42 \/ r.s.ch = 63
    THEN RetOk(store_rdch(r.s, r.s.ch), TRUE)
    ELSE RetOk(r.s, TRUE)

read_re_repeat_expr(s) == read_re_repeat_op(read_re_base_expr(s))

\* while ( read_re_repeat_expr() );
read_re_and_expr_loop(s) ==
    LET again(r) == IF r.ok THEN read_re_and_expr_loop(r.s) ELSE r.s
    IN again(read_re_repeat_expr(s))

read_re_and_expr_rest(r) ==
    IF ~r.ok THEN RetOk(r.s, FALSE)
    ELSE RetOk(read_re_and_expr_loop(r.s), TRUE)

read_re_and_expr(s) == read_re_and_expr_rest(read_re_repeat_expr(s))

\* do { if ( ch != '|' ) break; ...; if ( !read_re_and_expr() ) report(); }
read_re_or_expr_loop(s) ==
    LET again(r) ==
            IF ~r.ok
            THEN report(r.s, "expression expected in regular expression")
            ELSE read_re_or_expr_loop(r.s)
    IN IF IsHalted(s) \/ s.ch # 124 THEN s
       ELSE again(read_re_and_expr(store_rdch(s, 124)))

read_re_or_expr_rest(r) ==
    IF ~r.ok THEN RetOk(r.s, FALSE)
    ELSE RetOk(read_re_or_expr_loop(r.s), TRUE)

read_re_or_expr(s) == read_re_or_expr_rest(read_re_and_expr(s))

read_re_expr(s) == read_re_or_expr(s)

\* The two reports after read_re_expr, rdch() over the closing '/', and
\* the node that takes the text collected in regex.
read_regex_close(r) ==
    LET made(s4) == create_node(s4, T_REG_EX, s4.regex)
    IN made(rdch(expect(expect_ok(r, "regular expression expected"), 47,
                   "delimiter '/' expected after regular expression")))

read_regex(s) ==
    IF IsHalted(s) \/ s.ch # 47 THEN Ret(s, 0)
    ELSE read_regex_close(read_re_expr([ rdch(s) EXCEPT !.regex = << >> ]))

\* ------------------------------------------------------------------------
\* The EBNF parser
\* ------------------------------------------------------------------------

KwMax == 5

\* do { tmp[pos++] = ch; rdch(); } while ( pos < 5 && ch >= 'A' && ch <= 'Z' );
RECURSIVE read_keyword_loop(_, _)
read_keyword_loop(s, tmp) ==
    LET again(s1, tmp1) ==
            IF Len(tmp1) < KwMax /\ IsUpper(s1.ch)
            THEN read_keyword_loop(s1, tmp1)
            ELSE [ s |-> s1, tmp |-> tmp1 ]
    IN again(rdch(s), Append(tmp, s.ch))

\* while ( pos > 0 ) putback( tmp[--pos] );
RECURSIVE putback_keyword(_, _, _)
putback_keyword(s, tmp, pos) ==
    IF pos > 0 THEN putback_keyword(putback(s, tmp[pos]), tmp, pos - 1)
    ELSE s

\* The failure path of keyword recognition: the lookahead and the
\* characters read are put back and the first one is read again.
unread_keyword(s, tmp) ==
    rdch(putback_keyword(putback(s, s.ch), tmp, Len(tmp)))

KwBYTE == Str(<< "B", "Y", "T", "E" >>)
KwWORD == Str(<< "W", "O", "R", "D" >>)
KwDWORD == Str(<< "D", "W", "O", "R", "D" >>)
KwQWORD == Str(<< "Q", "W", "O", "R", "D" >>)
KwTOKEN == Str(<< "T", "O", "K", "E", "N" >>)

\* The node of BYTE:id or BYTE*id; the identifier node becomes its branch.
read_bin_field(k, ri) ==
    LET linked(rn) ==
            IF ri.node # 0
            THEN Ret(add_branch(rn.s, rn.node, ri.node), rn.node)
            ELSE rn
    IN linked(create_node(
                expect_node(ri,
                    "identifier expected after ':' or '*' in binary match"),
                IF k.s.ch = 58 THEN T_BIN_FIELD_COUNT ELSE T_BIN_FIELD_TIMES,
                k.tmp))

\* After the upper-case word has been read into tmp.
read_bin_keyword(k) ==
    IF k.tmp \notin { KwBYTE, KwWORD, KwDWORD, KwQWORD }
    THEN Ret(unread_keyword(k.s, k.tmp), 0)
    ELSE IF k.s.ch = 58 \/ k.s.ch = 42
    THEN read_bin_field(k, read_identifier(rdch(k.s)))
    ELSE create_node(k.s, T_BIN_FIELD, k.tmp)

\* After skip_whitespace(): hexadecimal data, a keyword, or no match.
read_bin_start(s) ==
    IF s.ch = 36 THEN read_hexadecimal(s)
    ELSE IF s.ch \notin { 66, 87, 68, 81 } THEN Ret(s, 0)
    ELSE read_bin_keyword(read_keyword_loop(s, << >>))

read_bin_match(s0) ==
    IF IsHalted(s0) THEN Ret(s0, 0)
    ELSE read_bin_start(skip_whitespace(s0))

RECURSIVE read_expr(_)
RECURSIVE read_paren_expr(_)
RECURSIVE read_brack_expr(_)
RECURSIVE read_brace_expr(_)
RECURSIVE read_base_expr(_)
RECURSIVE read_and_expr(_)
RECURSIVE read_and_expr_loop(_, _, _)
RECURSIVE read_or_expr(_)
RECURSIVE read_or_expr_loop(_, _, _)

\* if ( expr == 0 ) report( msgExpr ); if ( ch != closing ) report( msgClose );
\* rdch();
read_closing(r, closing, msgExpr, msgClose) ==
    rdch(expect(expect_node(r, msgExpr), closing, msgClose))

read_paren_close(r) ==
    Ret(read_closing(r, 41, "expression expected after '('",
                     "closing parenthesis ')' expected"),
        r.node)

read_paren_expr(s) == read_paren_close(read_expr(rdch(s)))

\* '[' expr ']' and '{' expr '}' differ in the closing character, the
\* messages and the token of the node.
read_wrapped_close(r, closing, msgExpr, msgClose, token) ==
    LET wrapped(rn) ==
            IF IsHalted(rn.s) THEN Ret(rn.s, 0)
            ELSE Ret(add_branch(rn.s, rn.node, r.node), rn.node)
    IN wrapped(create_node(read_closing(r, closing, msgExpr, msgClose),
                           token, NULLSTR))

read_brack_expr(s) ==
    read_wrapped_close(read_expr(rdch(s)), 93,
                       "expression expected after '['",
                       "closing bracket ']' expected", T_BRACK_EXPR)

read_brace_expr(s) ==
    read_wrapped_close(read_expr(rdch(s)), 125,
                       "expression expected after '{'",
                       "closing brace '}' expected", T_BRACE_EXPR)

\* The switch of read_base_expr on ch, after skip_whitespace().
read_base_start(s) ==
    CASE s.ch = 39 \/ s.ch = 34 -> read_str_literal(s)
      [] s.ch = 47  -> read_regex(s)
      [] s.ch = 40  -> read_paren_expr(s)
      [] s.ch = 91  -> read_brack_expr(s)
      [] s.ch = 123 -> read_brace_expr(s)
      [] OTHER -> IF IsIdentStart(s.ch) THEN read_identifier(s)
                  ELSE read_bin_match(s)

read_base_expr(s0) ==
    IF IsHalted(s0) THEN Ret(s0, 0)
    ELSE read_base_start(skip_whitespace(s0))

\* for (;;) { add_branch( node, expr ); expr = read_base_expr();
\*            if ( expr == 0 ) break; }
read_and_expr_loop(s, node, expr) ==
    LET again(r) == IF r.node = 0 THEN r.s
                    ELSE read_and_expr_loop(r.s, node, r.node)
    IN again(read_base_expr(add_branch(s, node, expr)))

\* The wrapper is returned whatever the number of its branches.
elide_single_never(s, node) ==
    IF IsHalted(s) THEN Ret(s, 0) ELSE Ret(s, node)

\* A wrapper with a single branch is deleted and its branch returned.
elide_single(s, node) ==
    IF IsHalted(s) THEN Ret(s, 0)
    ELSE IF Len(s.heap[node].branches) = 1
    THEN Ret(delete_node(set_branch(s, node, 1, 0), node),
             s.heap[node].branches[1])
    ELSE Ret(s, node)

\* The loop over the list node rn, started with the first expression.
read_and_expr_list(rn, expr) ==
    elide_single(read_and_expr_loop(rn.s, rn.node, expr), rn.node)

read_and_expr_first(r) ==
    IF r.node = 0 \/ IsHalted(r.s) THEN Ret(r.s, 0)
    ELSE read_and_expr_list(create_node(r.s, T_AND_EXPR, NULLSTR), r.node)

read_and_expr(s) == read_and_expr_first(read_base_expr(s))

\* if ( ch != '|' ) break; rdch(); expr = read_and_expr();
\* if ( expr == 0 ) report( ... );
read_or_expr_bar(s, node) ==
    LET again(r) ==
            IF r.node = 0 THEN report(r.s, "expression expected after '|'")
            ELSE read_or_expr_loop(r.s, node, r.node)
    IN IF IsHalted(s) \/ s.ch # 124 THEN s
       ELSE again(read_and_expr(rdch(s)))

\* for (;;) { add_branch( node, expr ); skip_whitespace(); ... }
read_or_expr_loop(s, node, expr) ==
    read_or_expr_bar(skip_whitespace(add_branch(s, node, expr)), node)

read_or_expr_list(rn, expr) ==
    elide_single(read_or_expr_loop(rn.s, rn.node, expr), rn.node)

read_or_expr_first(r) ==
    IF r.node = 0 \/ IsHalted(r.s) THEN Ret(r.s, 0)
    ELSE read_or_expr_list(create_node(r.s, T_OR_EXPR, NULLSTR), r.node)

read_or_expr(s) == read_or_expr_first(read_and_expr(s))

read_expr(s) == read_or_expr(s)

\* The T_PRODUCTION node: it takes the identifier's text, the identifier
\* node is deleted and the expression becomes the only branch.
read_production_node(ri, re, s) ==
    LET linked(rn) ==
            Ret(add_branch(delete_node(rn.s, ri.node), rn.node, re.node),
                rn.node)
    IN IF IsHalted(s) THEN Ret(s, 0)
       ELSE linked(create_node(s, T_PRODUCTION, s.heap[ri.node].text))

\* The report for a missing expression, then the '.' that ends it.
read_production_end(ri, re) ==
    read_production_node(ri, re,
        rdch(expect(
            skip_whitespace(
                expect_node(re, "expression expected in production")),
            46, "'.' expected")))

\* After the identifier: ':' and '=' and the expression.
read_production_expr(ri) ==
    read_production_end(ri,
        read_expr(rdch(expect(
            rdch(expect(skip_whitespace(ri.s), 58,
                        "':' expected, but found")),
            61, "'=' expected"))))

\* The part of read_production after the switch on the TOKEN keyword and
\* skip_whitespace().
read_production_name(s) ==
    IF ~IsIdentStart(s.ch) THEN Ret(s, 0)
    ELSE read_production_expr(read_identifier(s))

\* The switch of read_production when no character 'T' starts the
\* production.
read_production_default(s) == Ret(s, 0)

\* case 'T': the word read is TOKEN, or it is put back.
read_production_keyword(k) ==
    IF k.tmp = KwTOKEN THEN read_production_name(skip_whitespace(k.s))
    ELSE Ret(unread_keyword(k.s, k.tmp), 0)

read_production_start(s) ==
    IF s.ch = 84 THEN read_production_keyword(read_keyword_loop(s, << >>))
    ELSE read_production_default(s)

read_production(s0) ==
    IF IsHalted(s0) THEN Ret(s0, 0)
    ELSE read_production_start(skip_whitespace(s0))

\* do { add_branch( node, prod ); prod = read_production(); } while ( prod );
RECURSIVE read_prod_list_loop(_, _, _)
read_prod_list_loop(s, node, prod) ==
    LET again(r) == IF r.node = 0 THEN r.s
                    ELSE read_prod_list_loop(r.s, node, r.node)
    IN again(read_production(add_branch(s, node, prod)))

read_prod_list_list(rn, prod) ==
    Ret(read_prod_list_loop(rn.s, rn.node, prod), rn.node)

read_prod_list_first(r) ==
    IF r.node = 0 \/ IsHalted(r.s) THEN Ret(r.s, 0)
    ELSE read_prod_list_list(create_node(r.s, T_PROD_LIST, NULLSTR), r.node)

read_prod_list(s) == read_prod_list_first(read_production(s))

\* ------------------------------------------------------------------------
\* The literal deduplication pass
\* ------------------------------------------------------------------------

RECURSIVE find_literal_helper(_, _, _, _)
RECURSIVE find_literal_branches(_, _, _, _, _)
find_literal_branches(heap, node, i, text, token) ==
    IF i > Len(heap[node].branches) THEN 0
    ELSE LET next(result) ==
                 IF result # 0 THEN result
                 ELSE find_literal_branches(heap, node, i + 1, text, token)
         IN next(find_literal_helper(heap, heap[node].branches[i],
                                     text, token))

find_literal_helper(heap, node, text, token) ==
    IF node = 0 THEN 0
    ELSE IF heap[node].token = token /\ heap[node].text = text THEN node
    ELSE find_literal_branches(heap, node, 1, text, token)

\* find_literal searching while the root of the tree is still null.
find_literal_mut(heap, root, text, token) ==
    find_literal_helper(heap, 0, text, token)

\* find_literal searches from the root of the tree.
find_literal(heap, root, text, token) ==
    find_literal_helper(heap, root, text, token)

\* The slot is left as it was: the assignment *pBranch = found is lost.
store_slot_mut(st, parent, i, found) == st

\* *pBranch = found, where pBranch is &tree (parent 0) or
\* &parent->branches[i].
store_slot(st, parent, i, found) ==
    IF parent = 0 THEN [ st EXCEPT !.tree = found ]
    ELSE [ st EXCEPT !.heap[parent].branches[i] = found ]

\* st is [ heap, tree ].
RECURSIVE deduplicate_literals(_, _, _, _)
RECURSIVE deduplicate_branches(_, _, _)
deduplicate_branches(st, node, i) ==
    IF i > Len(st.heap[node].branches) THEN st
    ELSE deduplicate_branches(
            deduplicate_literals(st, node, i, st.heap[node].branches[i]),
            node, i + 1)

deduplicate_literals(st, parent, slot, node) ==
    IF node = 0 THEN st
    ELSE
    LET counted(st1, found) ==
            [ st1 EXCEPT !.heap[found].refCnt = @ + 1 ]
        released(st2, found) ==
            IF node # found
            THEN [ st2 EXCEPT !.heap = delete_node_heap(@, node) ]
            ELSE st2
        shared(found) ==
            IF found # 0
            THEN released(counted(store_slot(st, parent, slot, found), found),
                          found)
            ELSE deduplicate_branches(st, node, 1)
        literal(n) ==
            IF n.token = T_STR_LITERAL \/ n.token = T_REG_EX
            THEN find_literal(st.heap, st.tree, n.text, n.token)
            ELSE 0
    IN shared(literal(st.heap[node]))

\* ------------------------------------------------------------------------
\* Numbering: node ids and node type tags
\* ------------------------------------------------------------------------

BufMax == 255

Truncate(str, n) == IF Len(str) > n THEN SubSeq(str, 1, n) ELSE str

ToUpperChar(c) == IF c >= 97 /\ c <= 122 THEN c - 32 ELSE c

\* snprintf "%d" of a non-negative integer
RECURSIVE itoa(_)
itoa(n) == IF n < 10 THEN << 48 + n >> ELSE itoa(n \div 10) \o << 48 + (n % 10) >>

PrefixNT == Str(<< "N", "T", "_" >>)

PrefixNT_TERMINAL ==
    Str(<< "N", "T", "_", "T", "E", "R", "M", "I", "N", "A", "L", "_" >>)

NT_GENERIC ==
    Str(<< "_", "N", "T", "_", "G", "E", "N", "E", "R", "I", "C" >>)

name_to_C_enum(name) ==
    LET upper(buf) ==
            [ i \in 1..Len(buf) |->
                IF buf[i] = 45 THEN 95 ELSE ToUpperChar(buf[i]) ]
    IN upper(Truncate(PrefixNT \o name, BufMax))

is_export_node(n) ==
    n.token \in { T_PRODUCTION, T_STR_LITERAL, T_REG_EX, T_BIN_DATA,
                  T_BIN_FIELD, T_BIN_FIELD_COUNT, T_BIN_FIELD_TIMES,
                  T_AND_EXPR, T_OR_EXPR, T_BRACK_EXPR, T_BRACE_EXPR }

is_name(text) ==
    \A i \in 1..Len(text) :
        \/ (text[i] >= 97 /\ text[i] <= 122)
        \/ (text[i] >= 65 /\ text[i] <= 90)
        \/ (text[i] >= 48 /\ text[i] <= 57)
        \/ text[i] = 95

name_to_label(text) ==
    LET upper(buf) == [ i \in 1..Len(buf) |-> ToUpperChar(buf[i]) ]
    IN upper(Truncate(text, BufMax))

\* The table of operator_to_label, in the order of the source: the
\* operator and its label, written as tuples of one-character strings.
op2label_text ==
    <<
       << << "<", ">" >>, << "N", "E" >> >>,
       << << "!", "=" >>, << "C", "N", "E" >> >>,
       << << "=", "=" >>, << "D", "E", "Q" >> >>,
       << << "=" >>, << "E", "Q" >> >>,
       << << ">", "=" >>, << "G", "E" >> >>,
       << << "<", "=" >>, << "L", "E" >> >>,
       << << "<" >>, << "L", "T" >> >>,
       << << ">" >>, << "G", "T" >> >>,
       << << "&" >>, << "A", "N", "D" >> >>,
       << << "&", "&" >>, << "L", "O", "G", "A", "N", "D" >> >>,
       << << "|" >>, << "O", "R" >> >>,
       << << "|", "|" >>, << "L", "O", "G", "O", "R" >> >>,
       << << ";" >>, << "S", "E", "M", "I", "C" >> >>,
       << << "," >>, << "C", "O", "M", "M", "A" >> >>,
       << << ":" >>, << "C", "O", "L", "O", "N" >> >>,
       << << "(" >>, << "L", "P", "A", "R", "E", "N" >> >>,
       << << ")" >>, << "R", "P", "A", "R", "E", "N" >> >>,
       << << "[" >>, << "L", "B", "R", "A", "C", "K" >> >>,
       << << "]" >>, << "R", "B", "R", "A", "C", "K" >> >>,
       << << "{" >>, << "L", "B", "R", "A", "C", "E" >> >>,
       << << "}" >>, << "R", "B", "R", "A", "C", "E" >> >>,
       << << "^" >>, << "X", "O", "R" >> >>,
       << << "^", "^" >>, << "L", "O", "G", "X", "O", "R" >> >>,
       << << "*" >>, << "S", "T", "A", "R" >> >>,
       << << "*", "*" >>, << "D", "B", "L", "S", "T", "A", "R" >> >>,
       << << "/" >>, << "S", "L", "A", "S", "H" >> >>,
       << << "+" >>, << "P", "L", "U", "S" >> >>,
       << << "-" >>, << "M", "I", "N", "U", "S" >> >>,
       << << ":", "=" >>, << "A", "S", "S", "I", "G", "N" >> >>,
       << << ":", ":", "=" >>, << "A", "S", "S", "I", "G", "N", "2" >> >>,
       << << "~", "=" >>, << "A", "P", "P", "L", "Y" >> >>,
       << << "+", "+" >>, << "P", "L", "U", "S", "P", "L", "U", "S" >> >>,
       << << "-", "-" >>, << "M", "I", "N", "U", "S", "M", "I", "N", "U", "S" >> >>,
       << << "+", "=" >>, << "P", "L", "U", "S", "E", "Q" >> >>,
       << << "-", "=" >>, << "M", "I", "N", "U", "S", "E", "Q" >> >>,
       << << "*", "=" >>, << "S", "T", "A", "R", "E", "Q" >> >>,
       << << "/", "=" >>, << "S", "L", "A", "S", "H", "E", "Q" >> >>,
       << << "&", "=" >>, << "A", "N", "D", "E", "Q" >> >>,
       << << "|", "=" >>, << "O", "R", "E", "Q" >> >>,
       << << "^", "=" >>, << "X", "O", "R", "E", "Q" >> >>,
       << << "." >>, << "D", "O", "T" >> >>,
       << << "!" >>, << "E", "X", "C", "L", "A", "M" >> >>,
       << << "<", "<" >>, << "L", "S", "H", "I", "F", "T" >> >>,
       << << ">", ">" >>, << "R", "S", "H", "I", "F", "T" >> >>,
       << << "%" >>, << "M", "O", "D", "U", "L", "O" >> >>,
       << << "%", "=" >>, << "M", "O", "D", "U", "L", "O", "E", "Q" >> >>,
       << << ".", ".", "." >>, << "E", "L", "L", "I", "P", "S", "I", "S" >> >>,
       << << ".", "." >>, << "R", "A", "N", "G", "E" >> >>
    >>

\* The table as C strings.
op2label ==
    [ i \in 1..Len(op2label_text) |->
        << Str(op2label_text[i][1]), Str(op2label_text[i][2]) >> ]

\* The label of the first entry whose operator equals text, or NULLSTR.
operator_to_label(text) ==
    LET first(table) ==
            CHOOSE i \in 1..Len(table) :
                /\ table[i][1] = text
                /\ \A j \in 1..(i - 1) : table[j][1] # text
        lookup(table) ==
            IF \E i \in 1..Len(table) : table[i][1] = text
            THEN table[first(table)][2]
            ELSE NULLSTR
    IN lookup(op2label)

\* check_have_label: whether the label is already in the list; the list
\* with the label appended when it is not.
check_have_label(havelabel, text) ==
    IF \E i \in 1..Len(havelabel) : havelabel[i] = text
    THEN [ have |-> TRUE, havelabel |-> havelabel ]
    ELSE [ have |-> FALSE, havelabel |-> Append(havelabel, text) ]

\* The tag of output_enums_helper for a node that gets the id e.id, and
\* whether it is printed.  e is [ heap, id, havelabel, hdr ].
enum_tag(e, n) ==
    LET checked(tmp, c) ==
            [ tmp |-> tmp, print |-> ~c.have, havelabel |-> c.havelabel ]
        labelled(tmp) == checked(tmp, check_have_label(e.havelabel, tmp))
        operator(label) ==
            IF label # NULLSTR THEN labelled(PrefixNT_TERMINAL \o label)
            ELSE [ tmp |-> PrefixNT_TERMINAL \o itoa(e.id), print |-> TRUE,
                   havelabel |-> e.havelabel ]
    IN
    IF n.token = T_PRODUCTION
    THEN [ tmp |-> name_to_C_enum(n.text), print |-> TRUE,
           havelabel |-> e.havelabel ]
    ELSE IF n.token = T_STR_LITERAL \/ n.token = T_REG_EX
    THEN IF is_name(n.text)
         THEN labelled(PrefixNT_TERMINAL \o name_to_label(n.text))
         ELSE operator(operator_to_label(n.text))
    ELSE [ tmp |-> NT_GENERIC, print |-> FALSE, havelabel |-> e.havelabel ]

\* Numbering without the test node->id == -1.
enums_visit_mut(n) == is_export_node(n)

\* Whether output_enums_helper numbers the node.
enums_visit(n) == is_export_node(n) /\ n.id = -1

RECURSIVE output_enums_helper(_, _)
RECURSIVE output_enums_branches(_, _, _)
output_enums_branches(e, node, i) ==
    IF i > Len(e.heap[node].branches) THEN e
    ELSE output_enums_branches(
            output_enums_helper(e, e.heap[node].branches[i]), node, i + 1)

output_enums_helper(e, node) ==
    IF node = 0 THEN e
    ELSE
    LET tagged(t) ==
            [ e EXCEPT !.heap[node].nodeTypeEnum = t.tmp,
                       !.heap[node].id = e.id,
                       !.havelabel = t.havelabel,
                       !.hdr = IF t.print THEN Append(@, t.tmp) ELSE @,
                       !.id = @ + 1 ]
        visit(n) == IF enums_visit(n) THEN tagged(enum_tag(e, n)) ELSE e
    IN output_enums_branches(visit(e.heap[node]), node, 1)


\* ------------------------------------------------------------------------
\* Layout: export names and offsets into the branch array
\* ------------------------------------------------------------------------

name_to_C_name(name, prefix) ==
    << prefix, [ i \in 1..Len(name) |-> IF name[i] = 45 THEN 95 ELSE name[i] ] >>

\* The export name: the prefix of the node's kind and the name of the
\* production or the decimal id.
export_name(n) ==
    LET prefix ==
          CASE n.token = T_PRODUCTION  -> "production_"
            [] n.token = T_STR_LITERAL -> "string_terminal_"
            [] n.token = T_REG_EX      -> "regex_terminal_"
            [] n.token = T_AND_EXPR    -> "mandatory_expr_"
            [] n.token = T_OR_EXPR     -> "alternative_expr_"
            [] n.token = T_BRACK_EXPR  -> "optional_expr_"
            [] n.token = T_BRACE_EXPR  -> "optional_repetitive_expr_"
            [] OTHER -> ""
    IN IF n.token # T_PRODUCTION THEN << prefix, itoa(n.id) >>
       ELSE name_to_C_name(n.text, prefix)

\* Whether output_decls_helper names the node and lays out its branches.
decls_visit(n) == n.id >= 0 /\ n.exportIdent = NULLSTR

\* The offset given without the test node->numBranches != 0.
decls_offset_mut(n, branches_ix) == branches_ix

\* The offset output_decls_helper gives a node it visits.
decls_offset(n, branches_ix) ==
    IF Len(n.branches) # 0 THEN branches_ix ELSE n.branchesIx

\* The running total advanced by one slot for a node with branches.
decls_total_mut(n, branches_ix) ==
    IF Len(n.branches) # 0 THEN branches_ix + 1 ELSE branches_ix

\* The running total after output_decls_helper has visited a node.
decls_total(n, branches_ix) ==
    IF Len(n.branches) # 0 THEN branches_ix + Len(n.branches) ELSE branches_ix

\* d is [ heap, branches_ix ].
RECURSIVE output_decls_helper(_, _)
RECURSIVE output_decls_branches(_, _, _)
output_decls_branches(d, node, i) ==
    IF i > Len(d.heap[node].branches) THEN d
    ELSE output_decls_branches(
            output_decls_helper(d, d.heap[node].branches[i]), node, i + 1)

output_decls_helper(d, node) ==
    IF node = 0 THEN d
    ELSE
    LET visit(n) ==
            IF decls_visit(n)
            THEN [ d EXCEPT
                     !.heap[node].exportIdent = export_name(n),
                     !.heap[node].branchesIx = decls_offset(n, d.branches_ix),
                     !.branches_ix = decls_total(n, d.branches_ix) ]
            ELSE d
    IN output_decls_branches(visit(d.heap[node]), node, 1)

\* ------------------------------------------------------------------------
\* Emission of the branch array
\* ------------------------------------------------------------------------

RECURSIVE find_prod_id(_, _, _)
RECURSIVE find_prod_id_branches(_, _, _, _)
find_prod_id_branches(heap, node, i, name) ==
    IF i > Len(heap[node].branches) THEN -1
    ELSE LET r == find_prod_id(heap, heap[node].branches[i], name) IN
         IF r >= 0 THEN r ELSE find_prod_id_branches(heap, node, i + 1, name)

\* The search that descends into the first branch only: a production is
\* found when it is the first of the list.
find_prod_id_mut(heap, node, name) ==
    IF node = 0 THEN -1
    ELSE IF heap[node].token = T_PRODUCTION /\ heap[node].text = name
    THEN heap[node].id
    ELSE IF Len(heap[node].branches) = 0 THEN -1
    ELSE find_prod_id(heap, heap[node].branches[1], name)

\* The id of the first production of the given name in the tree, in
\* pre-order, or -1.
find_prod_id(heap, node, name) ==
    IF node = 0 THEN -1
    ELSE IF heap[node].token = T_PRODUCTION /\ heap[node].text = name
    THEN heap[node].id
    ELSE find_prod_id_branches(heap, node, 1, name)

\* The parent is a binary match: the last branch of the if-chain applies.
is_bin_parent(n) ==
    ~ ( n.token # T_BIN_DATA
        /\ (n.token < T_BIN_FIELD \/ n.token > T_BIN_FIELD_TIMES) )

\* The if-chain without the report2 for an identifier that names no
\* production.
branch_value_noreport(heap, root, n, branch) ==
    LET b == heap[branch] IN
    IF b.id >= 0 THEN [ val |-> b.id, abort |-> FALSE ]
    ELSE IF b.token = T_IDENTIFIER /\ find_prod_id(heap, root, b.text) >= 0
    THEN [ val |-> find_prod_id(heap, root, b.text), abort |-> FALSE ]
    ELSE IF ~is_bin_parent(n)
    THEN [ val |-> -1, abort |-> FALSE ]
    ELSE [ val |-> -2, abort |-> FALSE ]

\* What the if-chain of output_branches_helper writes for one branch of
\* the node n: a value, or the abort of report2.
branch_value(heap, root, n, branch) ==
    LET b == heap[branch] IN
    IF b.id >= 0 THEN [ val |-> b.id, abort |-> FALSE ]
    ELSE IF b.token = T_IDENTIFIER /\ find_prod_id(heap, root, b.text) >= 0
    THEN [ val |-> find_prod_id(heap, root, b.text), abort |-> FALSE ]
    ELSE IF ~is_bin_parent(n)
    THEN IF b.token = T_IDENTIFIER THEN [ val |-> -1, abort |-> TRUE ]
         ELSE [ val |-> -1, abort |-> FALSE ]
    ELSE [ val |-> -2, abort |-> FALSE ]

\* The loop over the branches of the owner of an offset.  o is
\* [ out, abort, n ]: the entries written, whether report2 ended the
\* process and with which name, and the return value.
RECURSIVE write_branches(_, _, _, _, _)
write_branches(heap, root, node, i, o) ==
    IF i > Len(heap[node].branches)
    THEN [ o EXCEPT !.n = Len(heap[node].branches) ]
    ELSE LET branch == heap[node].branches[i]
             v == branch_value(heap, root, heap[node], branch)
         IN IF v.abort
            THEN [ o EXCEPT !.abort = TRUE, !.name = heap[branch].text ]
            ELSE write_branches(heap, root, node, i + 1,
                   [ o EXCEPT !.out = Append(@, [ val |-> v.val, owner |-> node,
                                                  slot |-> i, branch |-> branch,
                                                  token |-> heap[branch].token ]) ])

RECURSIVE output_branches_helper(_, _, _, _, _)
RECURSIVE output_branches_children(_, _, _, _, _, _)
output_branches_children(heap, root, node, i, index, o) ==
    IF i > Len(heap[node].branches) THEN o
    ELSE LET r == output_branches_helper(heap, root, heap[node].branches[i],
                                         index, o)
         IN IF r.n # 0 \/ r.abort THEN r
            ELSE output_branches_children(heap, root, node, i + 1, index, r)

output_branches_helper(heap, root, node, index, o) ==
    IF node = 0 THEN o
    ELSE IF heap[node].id >= 0 /\ heap[node].branchesIx = index
    THEN write_branches(heap, root, node, 1, o)
    ELSE output_branches_children(heap, root, node, 1, index, o)

\* The NASM back-end has its own copy of the helper; the entries it
\* writes after "dw" are decided by the same if-chain.
RECURSIVE output_branches_helper_asm(_, _, _, _, _)
RECURSIVE output_branches_children_asm(_, _, _, _, _, _)
output_branches_children_asm(heap, root, node, i, index, o) ==
    IF i > Len(heap[node].branches) THEN o
    ELSE LET r == output_branches_helper_asm(heap, root,
                     heap[node].branches[i], index, o)
         IN IF r.n # 0 \/ r.abort THEN r
            ELSE output_branches_children_asm(heap, root, node, i + 1, index, r)

output_branches_helper_asm(heap, root, node, index, o) ==
    IF node = 0 THEN o
    ELSE IF heap[node].id >= 0 /\ heap[node].branchesIx = index
    THEN write_branches(heap, root, node, 1, o)
    ELSE output_branches_children_asm(heap, root, node, 1, index, o)

\* ------------------------------------------------------------------------
\* Emission of the parsing table
\* ------------------------------------------------------------------------

is_terminal(n) ==
    \/ n.token = T_STR_LITERAL \/ n.token = T_REG_EX \/ n.token = T_BIN_DATA
    \/ (n.token >= T_BIN_FIELD /\ n.token <= T_BIN_FIELD_TIMES)

node_class(n) ==
    IF n.token = T_PRODUCTION THEN "NC_PRODUCTION"
    ELSE IF is_terminal(n) THEN "NC_TERMINAL"
    ELSE CASE n.token = T_AND_EXPR   -> "NC_MANDATORY"
           [] n.token = T_OR_EXPR    -> "NC_ALTERNATIVE"
           [] n.token = T_BRACK_EXPR -> "NC_OPTIONAL"
           [] n.token = T_BRACE_EXPR -> "NC_OPTIONAL_REPETITIVE"
           [] OTHER -> "???"

term_type(n) ==
    IF n.token # T_PRODUCTION /\ is_terminal(n)
    THEN IF n.token = T_STR_LITERAL THEN "TT_STRING"
         ELSE IF n.token = T_REG_EX THEN "TT_REGEX"
         ELSE "TT_BINARY"
    ELSE "TT_UNDEF"

\* The capacity text_to_C_text and text_to_asm_text leave for the
\* characters: e = &buf[510].
CTextMax == 510

\* char text[1024] of output_texts_helper_asm.
AsmTextMax == 1024

HexDigitChars == Str(<< "0", "1", "2", "3", "4", "5", "6", "7", "8", "9",
                        "a", "b", "c", "d", "e", "f" >>)

\* \xHH or 0xHH of a byte, after the given first character.
hex_escape(first, c) ==
    << first, 120, HexDigitChars[((c \div 16) % 16) + 1],
       HexDigitChars[(c % 16) + 1] >>

\* The loop of text_to_C_text, eight characters to a step: q is the index
\* of the next character and the buffer written so far.
RECURSIVE text_to_C_text_loop(_, _)
text_to_C_text_loop(text, q) ==
    LET piece(c) ==
            IF c = 34 THEN << 92, 34 >>
            ELSE IF c = 92 THEN << 92, 92 >>
            ELSE IF (c \div 32) % 4 # 0 THEN << c >>
            ELSE hex_escape(92, c)
        put(buf, p) ==
            IF Len(buf) + Len(p) <= CTextMax THEN buf \o p ELSE buf
        iter(r) ==
            IF r.i > Len(text) THEN r
            ELSE [ i |-> r.i + 1, buf |-> put(r.buf, piece(text[r.i])) ]
    IN IF q.i > Len(text) THEN q
       ELSE text_to_C_text_loop(text,
                iter(iter(iter(iter(iter(iter(iter(iter(q)))))))))

text_to_C_text(text) ==
    text_to_C_text_loop(text, [ i |-> 1, buf |-> << >> ]).buf

\* text_to_asm_text: whether the text is free of the quote character,
\* and the characters copied.
text_to_asm_text(text, qc) ==
    [ ok  |-> \A i \in 1..Len(text) : text[i] # qc,
      buf |-> Truncate(text, CTextMax) ]

\* a | b of two non-negative integers.
RECURSIVE BitOr(_, _)
BitOr(a, b) ==
    IF a = 0 THEN b
    ELSE IF b = 0 THEN a
    ELSE (IF a % 2 = 1 \/ b % 2 = 1 THEN 1 ELSE 0)
         + 2 * BitOr(a \div 2, b \div 2)

\* The value sscanf( c, "%x", &x ) reads from two hex digits.
sscanf_x(c0, c1) ==
    LET digit(c) == IF c >= 97 THEN c - 87 ELSE IF c >= 65 THEN c - 55
                    ELSE c - 48
    IN 16 * digit(c0) + digit(c1)

\* tmp2 of output_impls_helper: the bytes of a BinData text.
bin_data_bytes(text) ==
    LET nb(n) == IF n > 256 THEN 256 ELSE n
    IN [ i \in 1..nb(Len(text) \div 2) |->
           sscanf_x(text[2 * i - 1], text[2 * i]) ]

\* The value v without the test for T_BIN_FIELD_COUNT.
bin_field_value_nowrite(n) ==
    LET width ==
            IF n.text = KwBYTE THEN TB_BYTE
            ELSE IF n.text = KwWORD THEN TB_WORD
            ELSE IF n.text = KwDWORD THEN TB_DWORD
            ELSE IF n.text = KwQWORD THEN TB_QWORD
            ELSE 0
    IN IF Len(n.branches) > 0 THEN BitOr(width, TBF_PARAM) ELSE width

\* The value v of output_impls_helper for a binary field.
bin_field_value(n) ==
    LET width ==
            IF n.text = KwBYTE THEN TB_BYTE
            ELSE IF n.text = KwWORD THEN TB_WORD
            ELSE IF n.text = KwDWORD THEN TB_DWORD
            ELSE IF n.text = KwQWORD THEN TB_QWORD
            ELSE 0
        param(v) == IF Len(n.branches) > 0 THEN BitOr(v, TBF_PARAM) ELSE v
        write(v) ==
            IF n.token = T_BIN_FIELD_COUNT THEN BitOr(v, TBF_WRITE) ELSE v
    IN write(param(width))

\* The text column of output_impls_helper.
impls_text(n) ==
    LET quoted(tmp) == << 34 >> \o tmp \o << 34 >>
    IN IF n.token = T_PRODUCTION \/ n.text = NULLSTR THEN << 48 >>
       ELSE IF n.token = T_STR_LITERAL \/ n.token = T_REG_EX
       THEN quoted(text_to_C_text(n.text))
       ELSE IF n.token = T_BIN_DATA
       THEN quoted(text_to_C_text(bin_data_bytes(n.text)))
       ELSE IF n.token >= T_BIN_FIELD /\ n.token <= T_BIN_FIELD_TIMES
       THEN quoted(text_to_C_text(<< bin_field_value(n) % 256 >>))
       ELSE quoted(<< >>)

\* prod_%d_text
text_label(id) ==
    Str(<< "p", "r", "o", "d", "_" >>) \o itoa(id)
    \o Str(<< "_", "t", "e", "x", "t" >>)

\* The text column of output_impls_helper_asm.
impls_text_asm(n) ==
    IF n.token # T_PRODUCTION /\ n.text # NULLSTR THEN text_label(n.id)
    ELSE << 48 >>

\* The third branch of text_as_source_asm, eight characters to a step:
\* 0xHH of each character, with commas between, while they fit. q is the
\* index of the next character and the buffer written so far.
RECURSIVE text_as_source_asm_loop(_, _, _)
text_as_source_asm_loop(bufsz, text, q) ==
    LET comma(r) ==
            IF r.i > 1 /\ Len(r.buf) + 1 < bufsz - 1
            THEN Append(r.buf, 44) ELSE r.buf
        hex(buf, c) ==
            IF Len(buf) + 4 < bufsz - 1 THEN buf \o hex_escape(48, c)
            ELSE buf
        iter(r) ==
            IF r.i > Len(text) THEN r
            ELSE [ i |-> r.i + 1, buf |-> hex(comma(r), text[r.i]) ]
    IN IF q.i > Len(text) THEN q
       ELSE text_as_source_asm_loop(bufsz, text,
                iter(iter(iter(iter(iter(iter(iter(iter(q)))))))))

text_as_source_asm(bufsz, text) ==
    LET quoted(qc, tmp) == Truncate(<< qc >> \o tmp \o << qc >>, bufsz - 1)
        double(t) ==
            IF t.ok THEN quoted(34, t.buf)
            ELSE text_as_source_asm_loop(bufsz, text,
                                         [ i |-> 1, buf |-> << >> ]).buf
        single(t) ==
            IF t.ok THEN quoted(39, t.buf)
            ELSE double(text_to_asm_text(text, 34))
    IN single(text_to_asm_text(text, 39))

\* dump_as_source_asm: TB_DATA, the number of bytes and the bytes, each
\* as 0x and its two digits as they are in the text; the message of
\* report when the length is odd or the buffer too small.
dump_as_source_asm(bufsz, text) ==
    LET nbytes == Len(text) \div 2
        name == IF 7 < bufsz - 1
                THEN Str(<< "T", "B", "_", "D", "A", "T", "A" >>) ELSE << >>
        count(p) == IF Len(p) + 5 < bufsz - 1
                    THEN Append(p, 44) \o hex_escape(48, nbytes) ELSE p
        byte(k) ==
            CASE k % 5 = 0 -> 44
              [] k % 5 = 1 -> 48
              [] k % 5 = 2 -> 120
              [] k % 5 = 3 -> text[2 * (k \div 5) + 1]
              [] OTHER     -> text[2 * (k \div 5) + 2]
        bytes(p) ==
            IF \E i \in 0..(nbytes - 1) : Len(p) + 5 * i + 5 >= bufsz - 1
            THEN [ err |-> "object too large during output", buf |-> << >> ]
            ELSE [ err |-> NoErr,
                   buf |-> p \o [ k \in 1..(5 * nbytes) |-> byte(k - 1) ] ]
    IN IF Len(text) % 2 = 1
       THEN [ err |-> "unexpected odd length in string", buf |-> << >> ]
       ELSE bytes(count(name))

\* TB_<width>, |TBF_PARAM with a branch, |TBF_WRITE for BinFieldCount.
field_as_source_asm(n) ==
    Str(<< "T", "B", "_" >>) \o n.text
    \o (IF Len(n.branches) # 0
        THEN Str(<< "|", "T", "B", "F", "_", "P", "A", "R", "A", "M" >>)
        ELSE << >>)
    \o (IF n.token = T_BIN_FIELD_COUNT
        THEN Str(<< "|", "T", "B", "F", "_", "W", "R", "I", "T", "E" >>)
        ELSE << >>)

\* What output_texts_helper_asm prints for the node it found: the db line
\* of prod_<id>_text, if any, or the message of report.
texts_line(n) ==
    LET line(text, end) ==
            [ err   |-> NoErr,
              lines |-> IF Len(text) # 0
                        THEN << [ id |-> n.id, text |-> text \o end ] >>
                        ELSE << >> ]
        dumped(d) ==
            IF d.err # NoErr THEN [ err |-> d.err, lines |-> << >> ]
            ELSE line(d.buf, << >>)
    IN IF n.token = T_PRODUCTION THEN line(<< >>, << >>)
       ELSE IF (n.token = T_STR_LITERAL \/ n.token = T_REG_EX)
               /\ n.text # NULLSTR
       THEN line(text_as_source_asm(AsmTextMax, n.text), << 44, 48 >>)
       ELSE IF n.token = T_BIN_DATA
       THEN dumped(dump_as_source_asm(AsmTextMax, n.text))
       ELSE IF n.token >= T_BIN_FIELD /\ n.token <= T_BIN_FIELD_TIMES
       THEN line(Truncate(field_as_source_asm(n), AsmTextMax - 1), << >>)
       ELSE line(<< >>, << >>)

\* The first node in pre-order whose id is the one asked for; 0 if none.
RECURSIVE output_texts_helper_asm(_, _, _)
RECURSIVE output_texts_children_asm(_, _, _, _)
output_texts_children_asm(heap, node, i, id) ==
    IF i > Len(heap[node].branches) THEN 0
    ELSE LET r == output_texts_helper_asm(heap, heap[node].branches[i], id) IN
         IF r # 0 THEN r ELSE output_texts_children_asm(heap, node, i + 1, id)

output_texts_helper_asm(heap, node, id) ==
    IF node = 0 THEN 0
    ELSE IF heap[node].id = id THEN node
    ELSE output_texts_children_asm(heap, node, 1, id)

\* The loop of output_texts_asm from index i: the lines printed, and the
\* message of report when it ended the program.
RECURSIVE output_texts_asm(_, _, _, _, _)
output_texts_asm(heap, tree, i, n, acc) ==
    LET printed(r) ==
            IF r.err # NoErr THEN [ acc EXCEPT !.err = r.err ]
            ELSE output_texts_asm(heap, tree, i + 1, n,
                                  [ acc EXCEPT !.texts = @ \o r.lines ])
        found(node) ==
            IF node = 0 THEN output_texts_asm(heap, tree, i + 1, n, acc)
            ELSE printed(texts_line(heap[node]))
    IN IF i < n THEN found(output_texts_helper_asm(heap, tree, i))
       ELSE acc

\* The row printed for a node: id, class, tag, terminal type, text, number
\* of branches and offset.
table_row(node, n, text) ==
    [ node |-> node, id |-> n.id, nodeClass |-> node_class(n),
      nodeType |-> n.nodeTypeEnum, termType |-> term_type(n), text |-> text,
      numBranches |-> Len(n.branches), branches |-> n.branchesIx ]

\* The first node in pre-order whose id is the one asked for; 0 if none.
RECURSIVE output_impls_helper(_, _, _)
RECURSIVE output_impls_children(_, _, _, _)
output_impls_children(heap, node, i, id) ==
    IF i > Len(heap[node].branches) THEN 0
    ELSE LET r == output_impls_helper(heap, heap[node].branches[i], id) IN
         IF r # 0 THEN r ELSE output_impls_children(heap, node, i + 1, id)

output_impls_helper(heap, node, id) ==
    IF node = 0 THEN 0
    ELSE IF heap[node].id = id THEN node
    ELSE output_impls_children(heap, node, 1, id)

\* The helper without the test node->id == id: the first node it is
\* called on is taken for the node of every id.
output_impls_helper_asm_noid(heap, node, id) == node

RECURSIVE output_impls_helper_asm(_, _, _)
RECURSIVE output_impls_children_asm(_, _, _, _)
output_impls_children_asm(heap, node, i, id) ==
    IF i > Len(heap[node].branches) THEN 0
    ELSE LET r == output_impls_helper_asm(heap, heap[node].branches[i], id) IN
         IF r # 0 THEN r ELSE output_impls_children_asm(heap, node, i + 1, id)

output_impls_helper_asm(heap, node, id) ==
    IF node = 0 THEN 0
    ELSE IF heap[node].id = id THEN node
    ELSE output_impls_children_asm(heap, node, 1, id)


\* ------------------------------------------------------------------------
\* Inputs
\* ------------------------------------------------------------------------

\* The largest number of productions of an input grammar.
MaxProds == 2

\* The name of the k-th production of an input grammar.
ProdNames == << Str(<< "a" >>), Str(<< "b" >>), Str(<< "c" >>),
                Str(<< "d" >>) >>

\* The expressions the productions of the input grammars are made of:
\*   'x'   /x/   'x' /x/ 'x'   b   a | 'y'   [ 'x' ] { b }   BYTE:b
\*   BYTE*z 'x'   z   $abc WORD   ( 'x' | 'y' ) a   ';' | ':='   'y' 'y'
\* (z is never declared; a, b, ... are declared when the grammar has as
\* many productions).
Bodies ==
    {
      Str(<< "'", "x", "'" >>),
      Str(<< "/", "x", "/" >>),
      Str(<< "'", "x", "'", " ", "/", "x", "/", " ", "'", "x", "'" >>),
      Str(<< "b" >>),
      Str(<< "a", " ", "|", " ", "'", "y", "'" >>),
      Str(<< "[", " ", "'", "x", "'", " ", "]", " ", "{", " ", "b", " ", "}" >>),
      Str(<< "B", "Y", "T", "E", ":", "b" >>),
      Str(<< "B", "Y", "T", "E", "*", "z", " ", "'", "x", "'" >>),
      Str(<< "z" >>),
      Str(<< "$", "a", "b", "c", " ", "W", "O", "R", "D" >>),
      Str(<< "(", " ", "'", "x", "'", " ", "|", " ", "'", "y", "'", " ", ")", " ", "a" >>),
      Str(<< "'", ";", "'", " ", "|", " ", "'", ":", "=", "'" >>),
      Str(<< "'", "y", "'", " ", "'", "y", "'" >>)
    }

\* The expressions of the third and later productions of an input grammar:
\* a literal the earlier productions may share, a declared and an
\* undeclared identifier, an alternative and a binary field.
TailBodies ==
    {
      Str(<< "'", "x", "'" >>),
      Str(<< "b" >>),
      Str(<< "z" >>),
      Str(<< "a", " ", "|", " ", "'", "y", "'" >>),
      Str(<< "B", "Y", "T", "E", ":", "b" >>)
    }

\* An input grammar: whether its productions are written with the TOKEN
\* keyword, and the expressions of its productions.
Grammars ==
    [ token : BOOLEAN,
      bodies : UNION { { b \in [ 1..n -> Bodies ] :
                           \A k \in 3..n : b[k] \in TailBodies } :
                       n \in 1..MaxProds } ]

\* The text of the production: [ 'TOKEN' ] identifier ':=' expr '.'
ProductionText(token, name, body) ==
    (IF token THEN KwTOKEN \o << 32 >> ELSE << >>)
    \o name \o Str(<< " ", ":", "=", " " >>) \o body \o Str(<< " ", "." >>)

\* The text of the grammar, one production per line.
RECURSIVE GrammarText(_, _)
GrammarText(g, k) ==
    IF k > Len(g.bodies) THEN << >>
    ELSE ProductionText(g.token, ProdNames[k], g.bodies[k]) \o << 10 >>
         \o GrammarText(g, k + 1)

\* ------------------------------------------------------------------------
\* Inputs of one production, made to exercise the scanner
\* ------------------------------------------------------------------------

\* The largest number of digits of the short hexadecimal literals.
MaxHexDigits == 3

\* The largest length of the short string literals.
MaxStrLen == 2

\* The deepest nesting of groups in the regular expressions.
MaxGroupDepth == 2

\* The deepest nesting of the expressions.
MaxExprDepth == 2

\* The sequences of at most n elements of A.
RECURSIVE Words(_, _)
Words(A, n) ==
    IF n = 0 THEN { << >> }
    ELSE Words(A, n - 1)
         \cup { Append(w, a) : w \in { x \in Words(A, n - 1) : Len(x) = n - 1 },
                               a \in A }

\* n times the character c.
Rep(c, n) == [ i \in 1..n |-> c ]

\* '$' and its digits: every word of a, B and 7 up to MaxHexDigits digits
\* (none included), and runs of the digit a around the capacity of tmp.
HexLiterals ==
    { << 36 >> \o w : w \in Words({ 97, 66, 55 }, MaxHexDigits) }
    \cup { << 36 >> \o Rep(97, n) : n \in (HexMax - 1)..(HexMax + 3) }

\* A width keyword alone, with ':' or '*' and an identifier, and with
\* ':' or '*' and something that is no identifier.
BinSuffixes ==
    { << >>, Str(<< ":", "a" >>), Str(<< "*", "a" >>), Str(<< ":", "b" >>),
      Str(<< "*", "b" >>), Str(<< ":" >>), Str(<< "*" >>),
      Str(<< ":", "B" >>), Str(<< "*", "'", "x", "'" >>) }

BinMatches ==
    { kw \o sfx : kw \in { KwBYTE, KwWORD, KwDWORD, KwQWORD },
                  sfx \in BinSuffixes }

\* Regular expressions with groups nested up to depth d, without the
\* delimiters: a, a|b, (r), (r)c.
RECURSIVE GroupExprs(_)
GroupExprs(d) ==
    IF d = 0 THEN { Str(<< "a" >>), Str(<< "a", "|", "b" >>) }
    ELSE GroupExprs(d - 1)
         \cup { << 40 >> \o r \o << 41 >> : r \in GroupExprs(d - 1) }
         \cup { << 40 >> \o r \o << 41, 99 >> : r \in GroupExprs(d - 1) }

RegexBodies == { << 47 >> \o r \o << 47 >> : r \in GroupExprs(MaxGroupDepth) }

\* Expressions nested up to depth d: 'x', ( e ), [ e ], { e }, e 'y',
\* e | 'y'.
RECURSIVE Exprs(_)
Exprs(d) ==
    IF d = 0 THEN { Str(<< "'", "x", "'" >>) }
    ELSE Exprs(d - 1)
         \cup { Str(<< "(", " " >>) \o e \o Str(<< " ", ")" >>) :
                e \in Exprs(d - 1) }
         \cup { Str(<< "[", " " >>) \o e \o Str(<< " ", "]" >>) :
                e \in Exprs(d - 1) }
         \cup { Str(<< "{", " " >>) \o e \o Str(<< " ", "}" >>) :
                e \in Exprs(d - 1) }
         \cup { e \o Str(<< " ", "'", "y", "'" >>) : e \in Exprs(d - 1) }
         \cup { e \o Str(<< " ", "|", " ", "'", "y", "'" >>) :
                e \in Exprs(d - 1) }

\* String literals in either quote: every non-empty word of x, '-' and
\* the space up to MaxStrLen characters, and runs of x around the
\* capacity of tmp.
StrBodies ==
    { w \in Words({ 120, 45, 32 }, MaxStrLen) : w # << >> }
    \cup { Rep(120, n) : n \in (TmpMax - 1)..(TmpMax + 1) }

StrLiterals == { << q >> \o w \o << q >> : q \in { 39, 34 }, w \in StrBodies }

\* Every operator of the table of operator_to_label as a string literal.
OperatorLiterals ==
    { << 39 >> \o op2label[i][1] \o << 39 >> : i \in 1..Len(op2label) }

\* A regular expression that is neither a name nor an operator before
\* the literal '2', and the same literal twice around it.
TagBodies ==
    { Str(<< "/", "[", "x", "]", "/", " ", "'", "2", "'" >>),
      Str(<< "'", "2", "'", " ", "/", "[", "x", "]", "/", " ", "'", "2", "'" >>) }

\* Names: a is the production itself, z is never declared.
NameBodies ==
    { Str(<< "a" >>), Str(<< "z" >>),
      Str(<< "'", "x", "'", " ", "z" >>),
      Str(<< "[", " ", "a", " ", "]", " ", "|", " ", "{", " ", "a", " ", "}" >>) }

LexBodies ==
    HexLiterals \cup BinMatches \cup RegexBodies \cup Exprs(MaxExprDepth)
    \cup StrLiterals \cup OperatorLiterals \cup TagBodies \cup NameBodies

\* An input of one production: its name and its expression.  The
\* production terminal-x is read with the literals 'x' and 'y'.
LexGrammars ==
    [ name : { ProdNames[1] }, body : LexBodies ]
    \cup [ name : { Str(<< "t", "e", "r", "m", "i", "n", "a", "l", "-", "x" >>) },
           body : { Str(<< "'", "x", "'" >>), Str(<< "'", "y", "'" >>) } ]

\* The text of the input: TOKEN name := body .
LexText(g) == ProductionText(TRUE, g.name, g.body) \o << 10 >>

\* ------------------------------------------------------------------------
\* Inputs of whole runs: a command line, and standard input written as
\* tokens with one separator between two of them
\* ------------------------------------------------------------------------

\* The options of the command line, and the file stem given.
OptHelp == { Str(<< "-", "-", "h", "e", "l", "p" >>), Str(<< "-", "h" >>) }
OptTree == { Str(<< "-", "-", "t", "r", "e", "e" >>), Str(<< "-", "t" >>) }
OptAsmAny == { Str(<< "-", "-", "a", "s", "m" >>), Str(<< "-", "a" >>) }
OptAsm == Str(<< "-", "-", "a", "s", "m" >>)
Stem == Str(<< "o" >>)

\* What stands between two tokens: a blank, a tab, a line break, a line
\* comment with its line break.
Blank == << 32 >>
Separators ==
    { << 9 >>, << 10 >>, << 13, 10 >>, Str(<< "-", "-", " ", "c" >>) \o << 10 >> }

\* The tokens of a production TOKEN a := ... , without the final '.'
ProdA == << KwTOKEN, Str(<< "a" >>), Str(<< ":", "=" >>) >>
LitX == Str(<< "'", "x", "'" >>)
LitY == Str(<< "'", "y", "'" >>)
Dot == Str(<< "." >>)

\* Inputs that are grammars, and inputs with something behind the last
\* production.
TokenLists ==
    { << >>,
      ProdA \o << Str(<< "b" >>), Str(<< "c" >>), Dot >>,
      ProdA \o << LitX, Str(<< "|" >>), LitY, LitX, Dot >>,
      ProdA \o << LitX, Dot, KwTOKEN, Str(<< "b" >>), Str(<< ":", "=" >>),
                  Str(<< "a" >>), Str(<< "/", "x", "/" >>), Dot >>,
      ProdA \o << LitX, Dot, Str(<< "?" >>) >>,
      ProdA \o << LitX, Dot, LitY >>,
      ProdA \o << LitX, Dot, Str(<< "b" >>), Str(<< ":", "=" >>), LitY, Dot >>,
      ProdA \o << LitX, Dot, Str(<< "T", "O", "K" >>) >>,
      ProdA \o << LitX, Dot, Str(<< "T", "O", "K" >>), Str(<< "?" >>) >>,
      ProdA \o << LitX, Dot, Str(<< "T" >>) >>,
      ProdA \o << Str(<< "B", "Y", "T" >>) >>,
      ProdA \o << LitX, Str(<< "B", "Y", "T", "E", "S" >>), Dot >>,
      ProdA \o << LitX, Str(<< "Q", "W", "O", "R", "D", "S" >>), Dot >>,
      << Str(<< "?" >>) >> }

\* Inputs that end in a report after a given number of characters: a
\* name of x's, then a '?' where the '.' is expected.
EchoLists ==
    { ProdA \o << Rep(120, n), Str(<< "?" >>) >> :
        n \in { 1, RngSize - 14, RngSize - 13, RngSize - 12,
                2 * RngSize - 14, 2 * RngSize - 12 } }

\* A token list with blanks between the tokens, but the given separator
\* behind token number at (no token has that number when at = 0).
MainInputs ==
    { [ tokens |-> l, at |-> 0, sep |-> Blank ] : l \in TokenLists \cup EchoLists }
    \cup UNION { [ tokens : { l }, at : 1..(Len(l) - 1), sep : Separators ] :
                 l \in TokenLists }

\* The text of the input: the tokens, the separators, and a line break
\* at the end of a text that is not empty.
RECURSIVE JoinTokens(_, _, _, _)
JoinTokens(tokens, at, sep, k) ==
    IF k > Len(tokens) THEN << >>
    ELSE tokens[k]
         \o (IF k = Len(tokens) THEN << 10 >>
             ELSE IF k = at THEN sep ELSE Blank)
         \o JoinTokens(tokens, at, sep, k + 1)

MainText(g) == JoinTokens(g.tokens, g.at, g.sep, 1)

\* The command lines: every option in both spellings, with and without a
\* file stem, and the arguments main refuses.
CommandLines ==
    { << >>, << Stem >>, << Stem, Str(<< "p" >>) >>,
      << Str(<< "-", "x" >>), Stem >> }
    \cup { << o, Stem >> : o \in OptAsmAny \cup OptTree \cup OptHelp }
    \cup { << Stem, o >> : o \in OptTree }
    \cup { << o >> : o \in OptTree \cup OptHelp }
    \cup { << Str(<< "-", "t" >>), Str(<< "-", "a" >>), Stem >> }

\* The command lines an input is run with: all of them for two of the
\* grammars written with blanks, the two back-ends and --tree for the
\* other inputs.
CommandLinesOf(g) ==
    IF g.at = 0 /\ Len(g.tokens) \in { 6, 8 } THEN CommandLines
    ELSE { << Stem >>, << OptAsm, Stem >>, << Str(<< "-", "t" >>), Stem >> }

\* ------------------------------------------------------------------------
\* The program
\* ------------------------------------------------------------------------

VARIABLES
    grammar,        \* the grammar standard input was written from
    argv,           \* the arguments of the command line, argv[1] onwards
    printTree,      \* --tree was given
    printAsm,       \* --asm was given
    fileStem,       \* the file stem argument, NULLSTR while there is none
    stdout,         \* the lines main printed to standard output
    treeOut,        \* the tree dump_tree_node printed, << >> when none
    pc,             \* where main is
    stdin, pbbuf, ch, lno, chx, rngbuf, wpos, rpos, regex,
    heap,           \* the nodes, by address
    tree,           \* the root of the tree, 0 when there is none
    err,            \* the message of report or report2, NoErr when none
    errName,        \* the name report2 printed in its message
    echo,           \* the characters printrng echoed
    id,             \* the id counter
    branches_ix,    \* the running total of branches
    havelabel,      \* the list of labels check_have_label keeps
    hdr,            \* the tags written to the node type enumeration
    branchesDecl,   \* the declared length of the branch array, -1 if none
    out,            \* the entries written to the branch array
    bi,             \* the index i of the loop of output_branches
    texts,          \* the db lines output_texts_asm wrote
    rows,           \* the rows written to the parsing table
    ii,             \* the index i of the loop of output_impls
    exitCode        \* the exit status, -1 while running

vars == << grammar, argv, printTree, fileStem, stdout, treeOut,
           printAsm, pc, stdin, pbbuf, ch, lno, chx, rngbuf, wpos,
           rpos, regex, heap, tree, err, errName, echo, id, branches_ix,
           havelabel, hdr, branchesDecl, out, bi, texts, rows, ii,
           exitCode >>

mainVars == << argv, printTree, fileStem, stdout, treeOut >>

readerVars == << stdin, pbbuf, ch, lno, chx, rngbuf, wpos, rpos, regex, echo >>

outputVars == << id, branches_ix, havelabel, hdr, branchesDecl, out, bi,
                texts, rows, ii >>

EXIT_SUCCESS == 0
EXIT_FAILURE == 1

\* The for loop of main over argv[i..]: m holds printTree, printAsm,
\* fileStem, what was printed to stdout, the message printed to stderr
\* and the status main returned in the loop (-1 when it did not).
RECURSIVE main_arguments(_, _, _)
main_arguments(args, i, m) ==
    LET is_option(arg) == Len(arg) > 0 /\ arg[1] = 45
    IN
    IF i > Len(args) THEN m
    ELSE IF args[i] \in OptHelp
    THEN [ m EXCEPT !.stdout = Append(@, "usage: ebnfcomp [options] <file-stem>"),
                    !.exit = EXIT_SUCCESS ]
    ELSE IF args[i] \in OptTree
    THEN main_arguments(args, i + 1, [ m EXCEPT !.printTree = TRUE ])
    ELSE IF args[i] \in OptAsmAny
    THEN main_arguments(args, i + 1, [ m EXCEPT !.printAsm = TRUE ])
    ELSE IF m.fileStem = NULLSTR /\ ~is_option(args[i])
    THEN main_arguments(args, i + 1,
            [ m EXCEPT !.fileStem = args[i],
                       !.stdout = Append(@, "file stem is") ])
    ELSE IF is_option(args[i])
    THEN [ m EXCEPT !.err = "unknown option", !.exit = EXIT_FAILURE ]
    ELSE [ m EXCEPT !.err = "unknown parameter", !.exit = EXIT_FAILURE ]

\* main asking for the file stem, and creating the output files, only
\* when code is written.
main_files_code_only(m, created) ==
    IF m.exit # -1 \/ m.printTree THEN m
    ELSE IF m.fileStem = NULLSTR
    THEN [ m EXCEPT !.err = "missing parameter, see --help",
                    !.exit = EXIT_FAILURE ]
    ELSE IF created = 0
    THEN [ m EXCEPT !.err = "failed to create implementation file",
                    !.exit = EXIT_FAILURE ]
    ELSE IF created = 1
    THEN [ m EXCEPT !.err = "failed to create header file",
                    !.exit = EXIT_FAILURE ]
    ELSE m

\* main before it reads standard input: the arguments, the test of the
\* file stem, and the two output files, either of which fopen may fail
\* to create.
main_files(m, created) ==
    IF m.exit # -1 THEN m
    ELSE IF m.fileStem = NULLSTR
    THEN [ m EXCEPT !.err = "missing parameter, see --help",
                    !.exit = EXIT_FAILURE ]
    ELSE IF created = 0
    THEN [ m EXCEPT !.err = "failed to create implementation file",
                    !.exit = EXIT_FAILURE ]
    ELSE IF created = 1
    THEN [ m EXCEPT !.err = "failed to create header file",
                    !.exit = EXIT_FAILURE ]
    ELSE m

\* The front-end's variables as the record the reader and the parser
\* work on.
FrontEnd ==
    [ stdin |-> stdin, pbbuf |-> pbbuf, ch |-> ch, lno |-> lno, chx |-> chx,
      rngbuf |-> rngbuf, wpos |-> wpos, rpos |-> rpos, regex |-> regex,
      heap |-> heap, err |-> err, echo |-> echo ]

\* The front-end before main has read anything from the given input.
FrontEnd0(text) ==
    [ stdin |-> text, pbbuf |-> << >>, ch |-> EOF, lno |-> 0, chx |-> 0,
      rngbuf |-> [ i \in 0..(RngSize - 1) |-> 0 ], wpos |-> 0, rpos |-> 0,
      regex |-> << >>, heap |-> << >>, err |-> NoErr, echo |-> << >> ]

SetFrontEnd(s) ==
    /\ stdin' = s.stdin /\ pbbuf' = s.pbbuf /\ ch' = s.ch /\ lno' = s.lno
    /\ chx' = s.chx /\ rngbuf' = s.rngbuf /\ wpos' = s.wpos /\ rpos' = s.rpos
    /\ regex' = s.regex /\ heap' = s.heap /\ err' = s.err /\ echo' = s.echo

\* main going on without a production list: the report is left out.
main_parse_noreport(s) == read_prod_list(rdch(s))

\* main up to the parsed tree: rdch(); prodlist = read_prod_list();
\* if ( prodlist == 0 ) report( "production list expected" );
main_parse(s) ==
    LET prodlist(r) ==
            IF r.node = 0
            THEN Ret(report(r.s, "production list expected"), 0)
            ELSE r
    IN prodlist(read_prod_list(rdch(s)))

Init ==
    /\ grammar \in Grammars
    /\ printAsm \in BOOLEAN
    /\ argv = (IF printAsm THEN << OptAsm >> ELSE << >>) \o << Stem >>
    /\ printTree = FALSE /\ fileStem = Stem
    /\ stdout = << "file stem is" >> /\ treeOut = << >>
    /\ pc = "main"
    /\ stdin = GrammarText(grammar, 1)
    /\ pbbuf = << >> /\ ch = EOF /\ lno = 0 /\ chx = 0
    /\ rngbuf = [ i \in 0..(RngSize - 1) |-> 0 ] /\ wpos = 0 /\ rpos = 0
    /\ regex = << >>
    /\ heap = << >> /\ tree = 0
    /\ err = NoErr /\ errName = << >> /\ echo = << >>
    /\ id = 0 /\ branches_ix = 0 /\ havelabel = << >> /\ hdr = << >>
    /\ branchesDecl = -1 /\ out = << >> /\ bi = 0 /\ texts = << >>
    /\ rows = << >> /\ ii = 0
    /\ exitCode = -1

\* The same start on an input of one production.
InitLex ==
    /\ grammar \in LexGrammars
    /\ printAsm \in BOOLEAN
    /\ argv = (IF printAsm THEN << OptAsm >> ELSE << >>) \o << Stem >>
    /\ printTree = FALSE /\ fileStem = Stem
    /\ stdout = << "file stem is" >> /\ treeOut = << >>
    /\ pc = "main"
    /\ stdin = LexText(grammar)
    /\ pbbuf = << >> /\ ch = EOF /\ lno = 0 /\ chx = 0
    /\ rngbuf = [ i \in 0..(RngSize - 1) |-> 0 ] /\ wpos = 0 /\ rpos = 0
    /\ regex = << >>
    /\ heap = << >> /\ tree = 0
    /\ err = NoErr /\ errName = << >> /\ echo = << >>
    /\ id = 0 /\ branches_ix = 0 /\ havelabel = << >> /\ hdr = << >>
    /\ branchesDecl = -1 /\ out = << >> /\ bi = 0 /\ texts = << >>
    /\ rows = << >> /\ ii = 0
    /\ exitCode = -1

\* main at its entry, with a command line and an input.
InitMain ==
    /\ grammar \in MainInputs
    /\ argv \in CommandLinesOf(grammar)
    /\ printAsm = FALSE /\ printTree = FALSE /\ fileStem = NULLSTR
    /\ stdout = << >> /\ treeOut = << >>
    /\ pc = "start"
    /\ stdin = MainText(grammar)
    /\ pbbuf = << >> /\ ch = EOF /\ lno = 0 /\ chx = 0
    /\ rngbuf = [ i \in 0..(RngSize - 1) |-> 0 ] /\ wpos = 0 /\ rpos = 0
    /\ regex = << >>
    /\ heap = << >> /\ tree = 0
    /\ err = NoErr /\ errName = << >> /\ echo = << >>
    /\ id = 0 /\ branches_ix = 0 /\ havelabel = << >> /\ hdr = << >>
    /\ branchesDecl = -1 /\ out = << >> /\ bi = 0 /\ texts = << >>
    /\ rows = << >> /\ ii = 0
    /\ exitCode = -1

\* The subtree of a node as dump_tree_node prints it: token, text and
\* the subtrees of the branches in order.
RECURSIVE dump_tree_node(_, _)
dump_tree_node(h, node) ==
    IF node = 0 THEN << >>
    ELSE << h[node].token, h[node].text,
            [ i \in 1..Len(h[node].branches) |->
                dump_tree_node(h, h[node].branches[i]) ] >>

\* main from its entry to the call of rdch().
ParseArguments ==
    /\ pc = "start"
    /\ \E created \in 0..2 :
         LET opened(m) ==
                 /\ printTree' = m.printTree /\ printAsm' = m.printAsm
                 /\ fileStem' = m.fileStem /\ stdout' = m.stdout
                 /\ err' = m.err
                 /\ IF m.exit # -1
                    THEN pc' = "exit" /\ exitCode' = m.exit
                    ELSE pc' = "main" /\ exitCode' = exitCode
         IN opened(main_files(
                main_arguments(argv, 1,
                    [ printTree |-> FALSE, printAsm |-> FALSE,
                      fileStem |-> NULLSTR, stdout |-> << >>,
                      err |-> NoErr, exit |-> -1 ]),
                created))
    /\ UNCHANGED << grammar, argv, treeOut, readerVars, heap, tree, errName,
                    outputVars >>

\* if ( printTree ) { dump_tree_node( prodlist, 0 ); return EXIT_SUCCESS; }
DumpTree ==
    /\ pc = "parsed" /\ printTree
    /\ treeOut' = dump_tree_node(heap, tree)
    /\ pc' = "exit" /\ exitCode' = EXIT_SUCCESS
    /\ UNCHANGED << grammar, argv, printTree, fileStem, stdout, printAsm,
                    readerVars, heap, tree, err, errName, outputVars >>

\* main reads the production list from standard input.
ReadProdList ==
    /\ pc = "main"
    /\ LET parsed(r) ==
               /\ SetFrontEnd(r.s)
               /\ IF IsHalted(r.s)
                  THEN /\ pc' = "exit" /\ exitCode' = EXIT_FAILURE
                       /\ tree' = tree
                  ELSE /\ pc' = "parsed" /\ exitCode' = exitCode
                       /\ tree' = r.node
       IN parsed(main_parse(FrontEnd))
    /\ UNCHANGED << grammar, mainVars, printAsm, errName, outputVars >>

\* tree = prodlist; deduplicate_literals( &tree, tree );
DeduplicateLiterals ==
    /\ pc = "parsed" /\ ~printTree
    /\ LET deduplicated(st) == heap' = st.heap /\ tree' = st.tree
       IN deduplicated(deduplicate_literals([ heap |-> heap, tree |-> tree ],
                                            0, 0, tree))
    /\ pc' = "output_enums"
    /\ UNCHANGED << grammar, mainVars, printAsm, readerVars, err, errName, outputVars,
                    exitCode >>

\* output_enums_helper( tree, doasm ) in output_code and output_code_asm
OutputEnums ==
    /\ pc = "output_enums"
    /\ LET numbered(e) ==
               /\ heap' = e.heap /\ id' = e.id
               /\ havelabel' = e.havelabel /\ hdr' = e.hdr
       IN numbered(output_enums_helper([ heap |-> heap, id |-> id,
                      havelabel |-> havelabel, hdr |-> hdr ], tree))
    /\ pc' = "output_decls"
    /\ UNCHANGED << grammar, mainVars, printAsm, readerVars, tree, err, errName,
                    branches_ix, branchesDecl, out, bi, texts, rows, ii,
                    exitCode >>

\* The loop of output_impls ending one id early.
impls_continue_mut(i, n) == i + 1 < n

\* The condition of the loop of output_impls and output_impls_asm.
impls_continue(i, n) == i < n

\* Where main goes after output_texts_asm, and after output_branches in
\* output_code.
after_texts(n) == IF impls_continue(0, n) THEN "output_impls" ELSE "exit"

\* Where main goes when the loop of output_branches is at index i.
after_branches(i, total, n) ==
    IF i < total THEN "output_branches"
    ELSE IF printAsm THEN "output_texts"
    ELSE after_texts(n)

\* output_decls_helper( tree ); the C back-end then declares the branch
\* array with its length.
OutputDecls ==
    /\ pc = "output_decls"
    /\ LET laid_out(d) ==
               /\ heap' = d.heap /\ branches_ix' = d.branches_ix
               /\ branchesDecl' = IF printAsm THEN branchesDecl
                                  ELSE d.branches_ix
               /\ pc' = after_branches(0, d.branches_ix, id)
               /\ exitCode' = IF after_branches(0, d.branches_ix, id) = "exit"
                              THEN EXIT_SUCCESS ELSE exitCode
       IN laid_out(output_decls_helper([ heap |-> heap,
                      branches_ix |-> branches_ix ], tree))
    /\ UNCHANGED << grammar, mainVars, printAsm, readerVars, tree, err, errName, id,
                    havelabel, hdr, out, bi, texts, rows, ii >>

NoBranches == [ out |-> << >>, abort |-> FALSE, name |-> << >>, n |-> 0 ]

\* One iteration of the loop of output_branches or output_branches_asm,
\* given what the helper did: i += n, or the exit of report2.
BranchesStep(r) ==
    /\ out' = out \o r.out
    /\ IF r.abort
       THEN /\ err' = "production not found" /\ errName' = r.name
            /\ pc' = "exit" /\ exitCode' = EXIT_FAILURE /\ bi' = bi
       ELSE /\ err' = err /\ errName' = errName
            /\ bi' = bi + r.n
            /\ pc' = after_branches(bi + r.n, branches_ix, id)
            /\ exitCode' = IF after_branches(bi + r.n, branches_ix, id) = "exit"
                           THEN EXIT_SUCCESS ELSE exitCode
    /\ UNCHANGED << grammar, mainVars, printAsm, readerVars, heap, tree, id, branches_ix,
                    havelabel, hdr, branchesDecl, texts, rows, ii >>

\* i += output_branches_helper( tree, i );
OutputBranches ==
    /\ pc = "output_branches" /\ ~printAsm /\ bi < branches_ix
    /\ BranchesStep(output_branches_helper(heap, tree, tree, bi, NoBranches))

\* i += output_branches_helper_asm( tree, i );
OutputBranchesAsm ==
    /\ pc = "output_branches" /\ printAsm /\ bi < branches_ix
    /\ BranchesStep(output_branches_helper_asm(heap, tree, tree, bi,
                                               NoBranches))

\* output_texts_asm(): the db lines of the texts, or the exit of report.
OutputTextsAsm ==
    /\ pc = "output_texts"
    /\ LET written(r) ==
               /\ texts' = r.texts
               /\ IF r.err # NoErr
                  THEN /\ err' = r.err
                       /\ pc' = "exit" /\ exitCode' = EXIT_FAILURE
                  ELSE /\ err' = err
                       /\ pc' = after_texts(id)
                       /\ exitCode' = IF after_texts(id) = "exit"
                                      THEN EXIT_SUCCESS ELSE exitCode
       IN written(output_texts_asm(heap, tree, 0, id,
                                   [ err |-> NoErr, texts |-> << >> ]))
    /\ UNCHANGED << grammar, mainVars, printAsm, readerVars, heap, tree, errName, id,
                    branches_ix, havelabel, hdr, branchesDecl, out, bi, rows,
                    ii >>

\* One iteration of the loop of output_impls or output_impls_asm, given
\* the node the helper found for the id (0 when it found none) and the
\* text column the helper prints for it.
ImplsStep(node, text) ==
    /\ rows' = IF node # 0
               THEN Append(rows, table_row(node, heap[node], text))
               ELSE rows
    /\ ii' = ii + 1
    /\ IF impls_continue(ii + 1, id) THEN pc' = pc /\ exitCode' = exitCode
       ELSE pc' = "exit" /\ exitCode' = EXIT_SUCCESS
    /\ UNCHANGED << grammar, mainVars, printAsm, readerVars, heap, tree, err, errName,
                    id, branches_ix, havelabel, hdr, branchesDecl, out, bi,
                    texts >>

\* output_impls_helper( tree, i );
OutputImpls ==
    /\ pc = "output_impls" /\ ~printAsm /\ impls_continue(ii, id)
    /\ LET found(node) ==
               ImplsStep(node, IF node # 0 THEN impls_text(heap[node])
                               ELSE << >>)
       IN found(output_impls_helper(heap, tree, ii))

\* output_impls_helper_asm( tree, i );
OutputImplsAsm ==
    /\ pc = "output_impls" /\ printAsm /\ impls_continue(ii, id)
    /\ LET found(node) ==
               ImplsStep(node, IF node # 0 THEN impls_text_asm(heap[node])
                               ELSE << >>)
       IN found(output_impls_helper_asm(heap, tree, ii))

Next ==
    \/ ReadProdList
    \/ DeduplicateLiterals
    \/ OutputEnums
    \/ OutputDecls
    \/ OutputBranches
    \/ OutputBranchesAsm
    \/ OutputTextsAsm
    \/ OutputImpls
    \/ OutputImplsAsm

Spec == Init /\ [][Next]_vars

SpecLex == InitLex /\ [][Next]_vars

\* The whole of main.
NextMain ==
    \/ ParseArguments
    \/ DumpTree
    \/ Next

SpecMain == InitMain /\ [][NextMain]_vars


\* ------------------------------------------------------------------------
\* Views of the tree
\* ------------------------------------------------------------------------

\* The addresses of the nodes reachable from a node.
RECURSIVE Reachable(_, _)
Reachable(h, node) ==
    IF node = 0 THEN { }
    ELSE { node } \cup UNION { Reachable(h, h[node].branches[i]) :
                                i \in 1..Len(h[node].branches) }

\* The branch slots of the nodes reachable from the root: << parent, i >>.
Slots(h, root) ==
    UNION { { << p, i >> : i \in 1..Len(h[p].branches) } :
            p \in Reachable(h, root) }


\* ------------------------------------------------------------------------
\* Stages of main
\* ------------------------------------------------------------------------

\* deduplicate_literals has run on a parsed tree.
Deduplicated == tree # 0 /\ ~printTree /\ pc \notin { "main", "parsed" }

\* The enumerate pass has run.
Enumerated == Deduplicated /\ pc # "output_enums"

\* The layout pass has run.
LaidOut == Enumerated /\ pc # "output_decls"

\* Emission has completed.
Completed == tree # 0 /\ pc = "exit" /\ exitCode = EXIT_SUCCESS

IsLiteral(n) == n.token = T_STR_LITERAL \/ n.token = T_REG_EX

\* The slots of the tree that refer to the node.
SlotsTo(h, root, node) ==
    { sl \in Slots(h, root) : h[sl[1]].branches[sl[2]] = node }

\* The production nodes of the tree with the given name.
ProductionsNamed(h, root, name) ==
    { q \in Reachable(h, root) :
        h[q].token = T_PRODUCTION /\ h[q].text = name }

\* ------------------------------------------------------------------------
\* C1
\* ------------------------------------------------------------------------

\* What main reads from the text of a single production written with or
\* without the TOKEN keyword: the tree as dump_tree_node shows it, or
\* << >> when the parser failed.
ParseOfProduction(token, body) ==
    LET r == main_parse(FrontEnd0(ProductionText(token, ProdNames[1], body)))
    IN dump_tree_node(r.s.heap, r.node)

\* C1: the TOKEN keyword is optional.  When standard input holds one
\* production identifier ':=' expr '.', with or without a leading TOKEN,
\* the parser succeeds, and the tree it returns is the tree it returns for
\* the other way of writing the production: same Production node, same
\* name, same subtree.
C1_TokenOptional ==
    (pc # "main" /\ Len(grammar.bodies) = 1) =>
        /\ tree # 0
        /\ heap[heap[tree].branches[1]].token = T_PRODUCTION
        /\ heap[heap[tree].branches[1]].text = ProdNames[1]
        /\ dump_tree_node(heap, tree)
             = ParseOfProduction(~grammar.token, grammar.bodies[1])

\* ------------------------------------------------------------------------
\* C2
\* ------------------------------------------------------------------------

\* C2 as stated: after deduplicate_literals any two nodes reachable from
\* the root that are of kind StrLit or Regex and have byte-equal text are
\* the same node instance.
C2_EqualTextSameNode ==
    Deduplicated =>
        \A m, n \in Reachable(heap, tree) :
            (IsLiteral(heap[m]) /\ IsLiteral(heap[n])
             /\ heap[m].text = heap[n].text) => m = n

\* C2 (amended): after deduplicate_literals any two nodes reachable from
\* the root that are of the same kind, StrLit or Regex, and have
\* byte-equal text are the same node instance, and no reachable node has
\* been freed.
C2_EqualKindAndTextSameNode ==
    Deduplicated =>
        /\ \A m, n \in Reachable(heap, tree) :
              (IsLiteral(heap[m]) /\ heap[m].token = heap[n].token
               /\ heap[m].text = heap[n].text) => m = n
        /\ \A n \in Reachable(heap, tree) : ~heap[n].freed

\* A literal that occurred twice in the grammar has been made one shared
\* node: a duplicate was freed and two slots refer to the node kept.
C2_Witness ==
    /\ pc = "output_enums"
    /\ \E n \in Reachable(heap, tree) :
          /\ IsLiteral(heap[n])
          /\ Cardinality(SlotsTo(heap, tree, n)) >= 2
          /\ \E f \in 1..Len(heap) : heap[f].freed /\ heap[f].refCnt = 0

\* ------------------------------------------------------------------------
\* C3
\* ------------------------------------------------------------------------

ExportNodes(h, root) == { n \in Reachable(h, root) : is_export_node(h[n]) }

\* C3: after the enumerate pass the ids of the exportable nodes reachable
\* from the root are exactly 0, 1, ..., N-1 (N the id counter), each id is
\* held by exactly one node instance, and every node that is not
\* exportable has id -1.
C3_ContiguousIds ==
    Enumerated =>
        /\ \A n \in ExportNodes(heap, tree) : heap[n].id \in 0..(id - 1)
        /\ \A k \in 0..(id - 1) :
              Cardinality({ n \in ExportNodes(heap, tree) : heap[n].id = k }) = 1
        /\ \A n \in Reachable(heap, tree) \ ExportNodes(heap, tree) :
              heap[n].id = -1

\* The enumerate pass has numbered a tree with a shared literal, an
\* identifier node and the production list.
C3_Witness ==
    /\ pc = "output_decls"
    /\ id >= 3
    /\ \E n \in ExportNodes(heap, tree) :
          Cardinality(SlotsTo(heap, tree, n)) >= 2
    /\ \E n \in Reachable(heap, tree) : heap[n].token = T_IDENTIFIER
    /\ heap[tree].token = T_PROD_LIST


\* ------------------------------------------------------------------------
\* C4
\* ------------------------------------------------------------------------

\* The rows of the parsing table written for nodes of the given kind and
\* text.
RowsOf(token, text) ==
    { k \in 1..Len(rows) :
        heap[rows[k].node].token = token /\ heap[rows[k].node].text = text }

\* The entries of the branch array written for the slot.
EntriesOf(sl) ==
    { k \in 1..Len(out) : out[k].owner = sl[1] /\ out[k].slot = sl[2] }

\* The tree as the parser returned it for the grammar on standard input,
\* before deduplicate_literals changed any slot.
ParsedTree == main_parse(FrontEnd0(GrammarText(grammar, 1)))

\* The slots of a parsed tree that refer to an occurrence of the literal
\* of the given kind and text.
OccurrencesAmong(h, slots, token, text) ==
    { sl \in slots :
        LET b == h[h[sl[1]].branches[sl[2]]] IN
        b.token = token /\ b.text = text }

OccurrencesIn(pt, token, text) ==
    OccurrencesAmong(pt.s.heap, Slots(pt.s.heap, pt.node), token, text)

OccurrencesOf(token, text) == OccurrencesIn(ParsedTree, token, text)

\* C4: a literal (same kind, same text) that occurs in two or more places
\* of the grammar gets one id and one row of the parsing table, and every
\* branch slot that referred to an occurrence is written as that id: no
\* entry of the branch array for such a slot ever holds another value,
\* no two rows are ever written for the literal, and when emission has
\* completed there is exactly one row, with the id, and exactly one entry
\* for each such slot.
C4_SharedLiteralOneRow ==
    LaidOut =>
        LET pt  == ParsedTree
            all == Slots(pt.s.heap, pt.node)
        IN
        \A n \in Reachable(heap, tree) :
            LET occ  == OccurrencesAmong(pt.s.heap, all, heap[n].token,
                                         heap[n].text)
                rws  == RowsOf(heap[n].token, heap[n].text)
            IN
            (IsLiteral(heap[n]) /\ Cardinality(occ) >= 2)
            =>
                /\ Cardinality(rws) <= 1
                /\ \A k \in rws :
                      rows[k].id = heap[n].id /\ rows[k].node = n
                /\ \A sl \in occ :
                      \A k \in EntriesOf(sl) : out[k].val = heap[n].id
                /\ Completed =>
                      /\ Cardinality(rws) = 1
                      /\ Cardinality({ k \in 1..Len(rows) :
                                         rows[k].id = heap[n].id }) = 1
                      /\ \A sl \in occ : Cardinality(EntriesOf(sl)) = 1

\* Emission has completed for a grammar in which a literal occurs three
\* times: three slots refer to the one node.
C4_Witness ==
    /\ Completed
    /\ \E n \in Reachable(heap, tree) :
          /\ IsLiteral(heap[n])
          /\ Cardinality(OccurrencesOf(heap[n].token, heap[n].text)) >= 3
          /\ Cardinality(SlotsTo(heap, tree, n)) >= 3
          /\ \E k \in 1..Len(rows) : rows[k].node = n

\* ------------------------------------------------------------------------
\* C5
\* ------------------------------------------------------------------------

RECURSIVE SumBranches(_, _)
SumBranches(h, S) ==
    IF S = { } THEN 0
    ELSE LET n == CHOOSE x \in S : TRUE IN
         Len(h[n].branches) + SumBranches(h, S \ { n })

\* C5: the number of values written to the branch array and the declared
\* length of the array (the final branches_ix) both equal the sum of
\* numBranches over the distinct exportable nodes reachable from the
\* root: branches_ix from the layout pass on, the declaration of the C
\* back-end from when it is written, and the number of values when
\* emission has completed.
C5_BranchArrayLength ==
    LaidOut =>
        LET total == SumBranches(heap, ExportNodes(heap, tree)) IN
        /\ branches_ix = total
        /\ ~printAsm => branchesDecl = total
        /\ Len(out) <= total
        /\ Completed => Len(out) = total

\* Emission has completed with a branch array of at least five values
\* that belongs to at least three nodes, one of them a shared literal's
\* parent.
C5_Witness ==
    /\ Completed
    /\ Len(out) >= 5
    /\ Cardinality({ out[k].owner : k \in 1..Len(out) }) >= 3
    /\ \E n \in ExportNodes(heap, tree) :
          Cardinality(SlotsTo(heap, tree, n)) >= 2

\* ------------------------------------------------------------------------
\* C6
\* ------------------------------------------------------------------------

Range(n) == heap[n].branchesIx .. (heap[n].branchesIx + Len(heap[n].branches) - 1)

\* C6: after the layout pass every exportable node with at least one
\* branch has branchesIx >= 0, the index ranges
\* [branchesIx, branchesIx + numBranches) of two distinct such nodes are
\* disjoint, and every node without branches has branchesIx = -1.
C6_DisjointRanges ==
    LaidOut =>
        /\ \A n \in ExportNodes(heap, tree) :
              Len(heap[n].branches) >= 1 => heap[n].branchesIx >= 0
        /\ \A m, n \in ExportNodes(heap, tree) :
              (m # n /\ Len(heap[m].branches) >= 1
                     /\ Len(heap[n].branches) >= 1)
              => Range(m) \cap Range(n) = { }
        /\ \A n \in Reachable(heap, tree) :
              Len(heap[n].branches) = 0 => heap[n].branchesIx = -1

\* The layout pass has laid out a node with two or more branches before
\* another node with branches, and a node without branches.
C6_Witness ==
    /\ pc = "output_branches"
    /\ \E m, n \in ExportNodes(heap, tree) :
          /\ Len(heap[m].branches) >= 2
          /\ Len(heap[n].branches) >= 1
          /\ heap[n].branchesIx > heap[m].branchesIx
    /\ \E n \in ExportNodes(heap, tree) : Len(heap[n].branches) = 0

\* ------------------------------------------------------------------------
\* C7
\* ------------------------------------------------------------------------

\* C7: when emission completes, every non-negative value written to the
\* branch array is less than the number of rows written to the parsing
\* table.
C7_BranchValuesInTable ==
    Completed =>
        \A k \in 1..Len(out) :
            out[k].val >= 0 => out[k].val < Len(rows)

\* Emission has completed and the branch array holds the id of the last
\* row of the table.
C7_Witness ==
    /\ Completed
    /\ Len(rows) >= 3
    /\ \E k \in 1..Len(out) : out[k].val = Len(rows) - 1

\* ------------------------------------------------------------------------
\* C8
\* ------------------------------------------------------------------------

\* The entries of the branch array written for Ident branches.
IdentEntries ==
    { k \in 1..Len(out) : heap[out[k].branch].token = T_IDENTIFIER }

\* Every Ident branch of the tree names a declared production.
AllDeclared ==
    \A sl \in Slots(heap, tree) :
        LET b == heap[heap[sl[1]].branches[sl[2]]] IN
        b.token = T_IDENTIFIER =>
            ProductionsNamed(heap, tree, b.text) # { }

Undeclared ==
    { sl \in Slots(heap, tree) :
        LET b == heap[heap[sl[1]].branches[sl[2]]] IN
        /\ is_export_node(heap[sl[1]])
        /\ heap[sl[1]].token \notin { T_BIN_DATA, T_BIN_FIELD,
                                      T_BIN_FIELD_COUNT, T_BIN_FIELD_TIMES }
        /\ b.token = T_IDENTIFIER
        /\ ProductionsNamed(heap, tree, b.text) = { } }

\* C9: if an Ident child of a node that is not a binary match names no
\* declared production, emission ends with the message
\* production '<name>' not found, naming such an identifier, and a
\* nonzero exit status, in the C and in the NASM back-end; no entry -1 is
\* ever written to the branch array for an identifier.
C9_UndeclaredAborts ==
    /\ (LaidOut /\ pc = "exit" /\ Undeclared # { }) =>
          /\ exitCode # EXIT_SUCCESS
          /\ err = "production not found"
          /\ \E sl \in Undeclared :
                errName = heap[heap[sl[1]].branches[sl[2]]].text
    /\ LaidOut => \A k \in IdentEntries : out[k].val # -1

\* The NASM back-end has ended with report2 after it had written part of
\* the branch array.
C9_Witness ==
    /\ pc = "exit" /\ printAsm /\ tree # 0
    /\ Undeclared # { }
    /\ err = "production not found"
    /\ exitCode = EXIT_FAILURE
    /\ Len(out) >= 1

\* ------------------------------------------------------------------------
\* C10
\* ------------------------------------------------------------------------

\* C10: for every binary-match node with an identifier (BinFieldCount
\* BYTE:id, BinFieldTimes BYTE*id) the named argument is never resolved:
\* its branch slot is written as -2, whatever the identifier is.
C10_BinArgumentNeverResolved ==
    LaidOut =>
        \A k \in 1..Len(out) :
            heap[out[k].owner].token \in { T_BIN_FIELD_COUNT,
                                           T_BIN_FIELD_TIMES }
            => out[k].val = -2

\* ------------------------------------------------------------------------
\* C11
\* ------------------------------------------------------------------------

\* C11: in the node-type enumeration written to the header every tag
\* appears at most once, whether it is the tag of a production, of a named
\* terminal, of an operator terminal or an NT_TERMINAL_<id> fallback.
C11_TagsEmittedOnce ==
    \A i, j \in 1..Len(hdr) : hdr[i] = hdr[j] => i = j

\* ------------------------------------------------------------------------
\* C12
\* ------------------------------------------------------------------------

\* Standard input holds one production whose expression is the given text.
InputBody(body) == "body" \in DOMAIN grammar /\ grammar.body = body

\* main has left the enumerate pass, or has exited before it.
PastEnums == pc \notin { "main", "parsed", "output_enums" }

\* C12: for every (operator, LABEL) pair of the table of operator_to_label,
\* a grammar that holds the operator as a string literal in single quotes
\* yields a StrLit node whose text is the operator and whose node-type tag
\* is NT_TERMINAL_<LABEL>.
C12_OperatorLiteralTag ==
    \A i \in 1..Len(op2label) :
        InputBody(<< 39 >> \o op2label[i][1] \o << 39 >>) /\ PastEnums
        => \E n \in Reachable(heap, tree) :
              /\ heap[n].token = T_STR_LITERAL
              /\ heap[n].text = op2label[i][1]
              /\ heap[n].nodeTypeEnum = PrefixNT_TERMINAL \o op2label[i][2]

\* ------------------------------------------------------------------------
\* C13
\* ------------------------------------------------------------------------

\* Standard input holds one production whose expression is a hex literal.
HexInput == "body" \in DOMAIN grammar /\ grammar.body \in HexLiterals

\* The digits written after '$'.
DigitsWritten == Tail(grammar.body)

\* The BinData nodes of the tree.
BinDataNodes ==
    { n \in Reachable(heap, tree) : heap[n].token = T_BIN_DATA }

\* Equal up to the case of the letters.
SameDigits(a, b) ==
    /\ Len(a) = Len(b)
    /\ \A i \in 1..Len(a) : ToUpperChar(a[i]) = ToUpperChar(b[i])

\* The length of the text of a BinData node read from count digits: one
\* more than an odd count, an even count unchanged.
PaddedLength(text, count) ==
    /\ Len(text) % 2 = 0
    /\ count % 2 = 1 => Len(text) = count + 1 /\ text[1] = 48
    /\ count % 2 = 0 => Len(text) = count

\* C13 as stated: the text of every BinData node has even length; a
\* literal with an odd number of digits gets one leading '0', a literal
\* with an even number of digits is stored unchanged in length.
C13_EvenLength ==
    HexInput =>
        \A n \in BinDataNodes :
            PaddedLength(heap[n].text, Len(DigitsWritten))

\* C13 (amended): the text of every BinData node has even length; a
\* literal of at most 253 digits with an odd number of digits is stored as
\* '0' and its digits, one with an even number of digits as its digits.
C13_EvenLengthWithinBuffer ==
    /\ \A n \in BinDataNodes : Len(heap[n].text) % 2 = 0
    /\ HexInput /\ Len(DigitsWritten) <= HexMax =>
          \A n \in BinDataNodes :
              /\ PaddedLength(heap[n].text, Len(DigitsWritten))
              /\ SameDigits(heap[n].text,
                            IF Len(DigitsWritten) % 2 = 1
                            THEN << 48 >> \o DigitsWritten
                            ELSE DigitsWritten)

\* A literal of three digits and one of 253 digits have been read.
C13_Witness ==
    /\ HexInput /\ pc = "parsed"
    /\ Len(DigitsWritten) \in { 3, HexMax }
    /\ \E n \in BinDataNodes :
          Len(heap[n].text) = Len(DigitsWritten) + 1 /\ heap[n].text[1] = 48

\* ------------------------------------------------------------------------
\* C14
\* ------------------------------------------------------------------------

\* C14 as stated: the text of every BinData node is a lowercase hex
\* string; digits written in upper case are lowered in the node text.
C14_LowercaseText ==
    \A n \in BinDataNodes :
        \A i \in 1..Len(heap[n].text) : ~IsUpper(heap[n].text[i])

\* C14 (amended): the text of every BinData node holds the digits of the
\* literal as they are written in the source, after the leading '0' of an
\* odd count: a digit written in upper case stays in upper case.
C14_DigitsAsWritten ==
    HexInput /\ Len(DigitsWritten) <= HexMax =>
        \A n \in BinDataNodes :
            heap[n].text = IF Len(DigitsWritten) % 2 = 1
                           THEN << 48 >> \o DigitsWritten
                           ELSE DigitsWritten

\* A literal with a digit in upper case has been read.
C14_Witness ==
    /\ HexInput /\ pc = "parsed"
    /\ \E i \in 1..Len(DigitsWritten) : IsUpper(DigitsWritten[i])
    /\ \E n \in BinDataNodes :
          \E i \in 1..Len(heap[n].text) : IsUpper(heap[n].text[i])

\* ------------------------------------------------------------------------
\* C15
\* ------------------------------------------------------------------------

\* C15: a hex literal needs at least one hex digit; a '$' that is not
\* followed by a hex digit produces no BinData node.
C15_DollarNeedsDigit ==
    HexInput /\ Len(DigitsWritten) = 0 => BinDataNodes = { }

\* ------------------------------------------------------------------------
\* C16
\* ------------------------------------------------------------------------

\* What follows a width keyword when ':' or '*' is there and the next
\* character cannot start an identifier (a blank, an upper-case letter,
\* a quote).
NoIdentifierSuffixes ==
    { Str(<< ":" >>), Str(<< "*" >>), Str(<< ":", "B" >>),
      Str(<< "*", "'", "x", "'" >>) }

\* C16: after a width keyword followed by ':' or '*', when the next
\* character is not in [a-z0-9], the parser reports "identifier expected
\* after ':' or '*' in binary match", exits with a nonzero status and
\* produces no BinFieldCount or BinFieldTimes node.
C16_IdentifierRequired ==
    \A kw \in { KwBYTE, KwWORD, KwDWORD, KwQWORD },
       sfx \in NoIdentifierSuffixes :
        InputBody(kw \o sfx) /\ pc # "main"
        => /\ pc = "exit" /\ exitCode = EXIT_FAILURE
           /\ err = "identifier expected after ':' or '*' in binary match"
           /\ \A n \in Reachable(heap, tree) :
                 heap[n].token \notin { T_BIN_FIELD_COUNT, T_BIN_FIELD_TIMES }

\* ------------------------------------------------------------------------
\* C17
\* ------------------------------------------------------------------------

IsBinField(n) == n.token >= T_BIN_FIELD /\ n.token <= T_BIN_FIELD_TIMES

\* The byte the claim gives for a binary field: the width, 0x10 with a
\* trailing identifier, 0x20 for BinFieldCount.
FieldByte(n) ==
    (CASE n.text = Str(<< "B", "Y", "T", "E" >>)      -> 2
       [] n.text = Str(<< "W", "O", "R", "D" >>)      -> 3
       [] n.text = Str(<< "D", "W", "O", "R", "D" >>) -> 4
       [] n.text = Str(<< "Q", "W", "O", "R", "D" >>) -> 5
       [] OTHER -> 0)
    + (IF \E i \in 1..Len(n.branches) :
             heap[n.branches[i]].token = T_IDENTIFIER
       THEN 16 ELSE 0)
    + (IF n.token = T_BIN_FIELD_COUNT THEN 32 ELSE 0)

\* The byte a C string literal of one character denotes, -1 if it is no
\* such literal: "c", "\"", "\\" or "\xHH".
CLiteralByte(t) ==
    LET digit(c) == IF c >= 97 THEN c - 87 ELSE c - 48
    IN IF Len(t) < 3 \/ t[1] # 34 \/ t[Len(t)] # 34 THEN -1
       ELSE IF Len(t) = 3 /\ t[2] # 92 THEN t[2]
       ELSE IF Len(t) = 4 /\ t[2] = 92 /\ t[3] \in { 34, 92 } THEN t[3]
       ELSE IF Len(t) = 6 /\ t[2] = 92 /\ t[3] = 120
       THEN 16 * digit(t[4]) + digit(t[5])
       ELSE -1

\* The value the header of the NASM back-end gives a symbol with equ.
EquValue(name) ==
    CASE name = Str(<< "T", "B", "_", "B", "Y", "T", "E" >>)      -> 2
      [] name = Str(<< "T", "B", "_", "W", "O", "R", "D" >>)      -> 3
      [] name = Str(<< "T", "B", "_", "D", "W", "O", "R", "D" >>) -> 4
      [] name = Str(<< "T", "B", "_", "Q", "W", "O", "R", "D" >>) -> 5
      [] name = Str(<< "T", "B", "F", "_", "P", "A", "R", "A", "M" >>) -> 16
      [] name = Str(<< "T", "B", "F", "_", "W", "R", "I", "T", "E" >>) -> 32
      [] OTHER -> -1

\* The value of a NASM expression of symbols joined by '|', -1 if a
\* symbol has no value.
RECURSIVE AsmValue(_)
AsmValue(t) ==
    LET bars == { i \in 1..Len(t) : t[i] = 124 }
        first == CHOOSE i \in bars : \A j \in bars : i <= j
        joined(a, b) == IF a < 0 \/ b < 0 THEN -1 ELSE BitOr(a, b)
    IN IF bars = { } THEN EquValue(t)
       ELSE joined(EquValue(SubSeq(t, 1, first - 1)),
                   AsmValue(SubSeq(t, first + 1, Len(t))))

\* The rows of the parsing table written for binary fields.
FieldRows == { k \in 1..Len(rows) : IsBinField(heap[rows[k].node]) }

\* The db lines written for the text of the node with the given id.
TextLines(i) == { j \in 1..Len(texts) : texts[j].id = i }

\* C17: the terminal byte of the row of a BinField, BinFieldCount or
\* BinFieldTimes node is width | TBF_PARAM (iff the node has a trailing
\* identifier) | TBF_WRITE (iff the node is a BinFieldCount), the width
\* being 2, 3, 4, 5 for BYTE, WORD, DWORD, QWORD.  The C back-end writes a
\* string literal of that byte; the NASM back-end writes one db line
\* whose expression has that value and refers to it in the row; the two
\* denote the same byte.
C17_FieldByte ==
    \A k \in FieldRows :
        LET n == heap[rows[k].node] IN
        /\ ~printAsm => CLiteralByte(rows[k].text) = FieldByte(n)
        /\ printAsm =>
              /\ rows[k].text = text_label(n.id)
              /\ Cardinality(TextLines(n.id)) = 1
              /\ \A j \in TextLines(n.id) :
                    AsmValue(texts[j].text) = FieldByte(n)
        /\ CLiteralByte(impls_text(n)) = AsmValue(field_as_source_asm(n))

\* The NASM back-end has written the row and the db line of a
\* BinFieldCount node: TB_<width>|TBF_PARAM|TBF_WRITE, 0x32 for BYTE.
C17_Witness ==
    /\ pc = "exit" /\ exitCode = EXIT_SUCCESS /\ printAsm
    /\ \E k \in FieldRows :
          /\ heap[rows[k].node].token = T_BIN_FIELD_COUNT
          /\ \E j \in TextLines(rows[k].id) : AsmValue(texts[j].text) = 50

\* ------------------------------------------------------------------------
\* C18
\* ------------------------------------------------------------------------

\* The regular expressions of the inputs that hold a group.
GroupRegexes ==
    { r \in GroupExprs(MaxGroupDepth) : \E i \in 1..Len(r) : r[i] = 40 }

\* C18: a regular expression that holds a group '(' re-expr ')', such as
\* /(a|b)c/, is accepted by the regex sub-parser, and the text of the
\* Regex node holds the group with both parentheses.
C18_RegexGroupAccepted ==
    \A r \in GroupRegexes :
        InputBody(<< 47 >> \o r \o << 47 >>) /\ pc # "main"
        => /\ err = NoErr
           /\ \E n \in Reachable(heap, tree) :
                 heap[n].token = T_REG_EX /\ heap[n].text = r

\* ------------------------------------------------------------------------
\* C19
\* ------------------------------------------------------------------------

\* e written in parentheses.
InParens(e) == Str(<< "(", " " >>) \o e \o Str(<< " ", ")" >>)

\* The tree the parser returns for one production with the given
\* expression, as dump_tree_node prints it.
TreeOfBody(name, body) ==
    LET dumped(r) == dump_tree_node(r.s.heap, r.node)
    IN dumped(main_parse(FrontEnd0(LexText([ name |-> name,
                                            body |-> body ]))))

\* C19: in every tree the parser returns, each AndExpr and each OrExpr
\* node has at least two branches, each BracketExpr and each BraceExpr node
\* has exactly one branch, and '(' expr ')' contributes no node: no node
\* stands for the parentheses and the tree of ( e ) is the tree of e.
C19_WrapperShape ==
    pc # "main" =>
        /\ \A n \in Reachable(heap, tree) :
              /\ heap[n].token \in { T_AND_EXPR, T_OR_EXPR }
                 => Len(heap[n].branches) >= 2
              /\ heap[n].token \in { T_BRACK_EXPR, T_BRACE_EXPR }
                 => Len(heap[n].branches) = 1
              /\ heap[n].token # T_EXPR
        /\ \A e \in Exprs(MaxExprDepth - 1) :
              InputBody(InParens(e)) /\ tree # 0
              => dump_tree_node(heap, tree) = TreeOfBody(grammar.name, e)

\* The parser has returned the tree of an expression in parentheses that
\* holds an AndExpr or an OrExpr node.
C19_Witness ==
    /\ pc = "parsed"
    /\ \E e \in Exprs(MaxExprDepth - 1) : InputBody(InParens(e))
    /\ \E n \in Reachable(heap, tree) :
          heap[n].token \in { T_AND_EXPR, T_OR_EXPR }

\* ------------------------------------------------------------------------
\* C20
\* ------------------------------------------------------------------------

\* C20: for every string literal whose body is a non-empty run of at most
\* 255 bytes other than the quote, the text of the StrLit node is that run
\* of bytes, byte for byte.
C20_RawLiteralText ==
    \A b \in StrBodies, q \in { 39, 34 } :
        Len(b) <= 255 /\ InputBody(<< q >> \o b \o << q >>) /\ pc # "main"
        => \E n \in Reachable(heap, tree) :
              heap[n].token = T_STR_LITERAL /\ heap[n].text = b

\* ------------------------------------------------------------------------
\* C21
\* ------------------------------------------------------------------------

\* The messages main prints itself, without report.
MainErrors ==
    { "unknown option", "unknown parameter", "missing parameter, see --help",
      "failed to create implementation file",
      "failed to create header file" }

\* The parse ended in a report.
Reported == err \notin MainErrors \cup { NoErr, "production not found" }

\* The tree of a parse as dump_tree_node prints it, << >> when the parse
\* ended in a report.
ParseOutcome(r) ==
    IF IsHalted(r.s) THEN << >> ELSE dump_tree_node(r.s.heap, r.node)

\* The outcome of the parse of a text.
TreeOfText(text) == ParseOutcome(main_parse(FrontEnd0(text)))

\* The outcome of the parse of this run.
ParsedNow == IF Reported THEN << >> ELSE dump_tree_node(heap, tree)

\* The input of this run with a blank for its separator.
BlankText == MainText([ grammar EXCEPT !.at = 0, !.sep = Blank ])

\* C21: parsing is whitespace-insensitive between tokens: an input in
\* which the blank between two adjacent tokens is replaced by a tab, a
\* line break or a line comment with its line break has the parse, tree
\* or report, of the input with the blank.
C21_SeparatorInsensitive ==
    (pc = "parsed" \/ Reported) /\ grammar.at # 0
        => ParsedNow = TreeOfText(BlankText)

\* ------------------------------------------------------------------------
\* C22
\* ------------------------------------------------------------------------

\* The inputs of which rdch has read exactly the characters that are no
\* longer in standard input: no line break, no comment and no keyword put
\* back before the report.
EchoInputs ==
    { g \in MainInputs :
        g.at = 0 /\ g.tokens \in EchoLists \cup { << >>, << Str(<< "?" >>) >> } }

\* The characters rdch has read from such an input.
CharsRead ==
    SubSeq(MainText(grammar), 1, Len(MainText(grammar)) - Len(stdin))

\* The last n elements of a sequence.
LastOf(seq, n) == SubSeq(seq, Len(seq) - n + 1, Len(seq))

Min(a, b) == IF a < b THEN a ELSE b

\* C22: when the parse ends in a report after n characters have been
\* read, the echo printrng printed is the last min(n, 64) characters
\* read, in reading order.
C22_EchoLast64 ==
    Reported /\ grammar \in EchoInputs /\ pbbuf = << >>
        => echo = LastOf(CharsRead, Min(Len(CharsRead), RngSize))

\* ------------------------------------------------------------------------
\* C23
\* ------------------------------------------------------------------------

\* main printed its usage.
HelpPrinted == \E i \in 1..Len(stdout) : stdout[i] # "file stem is"

\* main has come past the arguments and the output files and has read
\* standard input.
InputRead ==
    pc \notin { "start", "main" } /\ err \notin MainErrors /\ ~HelpPrinted

\* Standard input holds no character.
EmptyInput == MainText(grammar) = << >>

\* Nothing was written: no tree, no tag, no branch value, no table row.
NothingWritten ==
    treeOut = << >> /\ hdr = << >> /\ out = << >> /\ texts = << >>
    /\ rows = << >>

\* C23 as stated: an empty input makes the program print nothing and
\* exit with status 0.
C23_EmptyInputSucceeds ==
    EmptyInput /\ InputRead /\ pc = "exit"
        => exitCode = EXIT_SUCCESS /\ err = NoErr /\ NothingWritten

\* C23: an empty input ends the program with the report "production list
\* expected" in line 0 near position 0, an empty echo and the status
\* EXIT_FAILURE, with --tree as without; nothing else is written.
C23_EmptyInputReported ==
    EmptyInput /\ InputRead
        => /\ pc = "exit" /\ exitCode = EXIT_FAILURE
           /\ err = "production list expected"
           /\ lno = 0 /\ chx = 0 /\ echo = << >>
           /\ NothingWritten

\* The program has read an empty input and has ended, once with --tree.
C23_Witness ==
    EmptyInput /\ InputRead /\ pc = "exit" /\ printTree

\* ------------------------------------------------------------------------
\* C24
\* ------------------------------------------------------------------------

\* C24: an unexpected character is reported: when main has read standard
\* input and the reader stands on a character, not on the end of file
\* (blanks, tabs and line breaks are skipped before the next production
\* is looked for), the program has ended with a report and the status
\* EXIT_FAILURE, and has written no tag, no branch value and no row.
C24_UnexpectedCharacterReported ==
    InputRead /\ ch # EOF
        => /\ pc = "exit" /\ exitCode = EXIT_FAILURE /\ Reported
           /\ NothingWritten

\* ------------------------------------------------------------------------
\* C25
\* ------------------------------------------------------------------------

\* The loop of output_branches (asm FALSE) or output_branches_asm (asm
\* TRUE) on a laid-out tree, from index i: the values written to the
\* branch array, whether report2 ended the loop, and the name it printed.
RECURSIVE BranchArrayOf(_, _, _, _, _, _)
BranchArrayOf(h, root, asm, i, total, acc) ==
    LET written(r) ==
            [ k \in 1..Len(r.out) |-> r.out[k].val ]
        step(r) ==
            IF r.abort
            THEN [ vals |-> acc.vals \o written(r), abort |-> TRUE,
                   name |-> r.name ]
            ELSE BranchArrayOf(h, root, asm, i + r.n, total,
                               [ acc EXCEPT !.vals = @ \o written(r) ])
    IN IF i < total
       THEN step(IF asm
                 THEN output_branches_helper_asm(h, root, root, i, NoBranches)
                 ELSE output_branches_helper(h, root, root, i, NoBranches))
       ELSE acc

\* The loop of output_impls (asm FALSE) or output_impls_asm (asm TRUE)
\* from id i: the rows written, without their text column.
RECURSIVE TableOf(_, _, _, _, _, _)
TableOf(h, root, asm, i, n, acc) ==
    LET row(node) ==
            IF node = 0 THEN acc
            ELSE Append(acc, table_row(node, h[node], << >>))
    IN IF i < n
       THEN TableOf(h, root, asm, i + 1, n,
                    row(IF asm THEN output_impls_helper_asm(h, root, i)
                        ELSE output_impls_helper(h, root, i)))
       ELSE acc

\* What a back-end writes for the tree of this run.
BranchArray(asm) ==
    BranchArrayOf(heap, tree, asm, 0, branches_ix,
                  [ vals |-> << >>, abort |-> FALSE, name |-> << >> ])

Table(asm) == TableOf(heap, tree, asm, 0, id, << >>)

\* The rows of this run without their text column, and the values of its
\* branch array.
RowsWritten == [ k \in 1..Len(rows) |-> [ rows[k] EXCEPT !.text = << >> ] ]

ValuesWritten == [ k \in 1..Len(out) |-> out[k].val ]

StemsGiven == { i \in 1..Len(argv) : argv[i] \notin OptTree \cup OptAsmAny }

\* The command line asks for the tree and holds nothing main refuses:
\* --tree or -t, possibly --asm or -a, and at most one argument that is
\* no option and does not begin with '-'.
TreeCommand ==
    /\ \E i \in 1..Len(argv) : argv[i] \in OptTree
    /\ Cardinality(StemsGiven) <= 1
    /\ \A i \in StemsGiven : argv[i][1] # 45

\* The parse of a well-formed grammar: a tree, and the end of file
\* reached.
WellFormedOutcome(r) == ~IsHalted(r.s) /\ r.node # 0 /\ r.s.ch = EOF

\* Standard input of this run holds a well-formed grammar.
WellFormed == WellFormedOutcome(main_parse(FrontEnd0(MainText(grammar))))

\* fopen did not create one of the two output files.
CreateFailed ==
    err \in { "failed to create implementation file",
              "failed to create header file" }

\* C26 as stated: with --tree or -t and a well-formed grammar the program
\* dumps the tree and exits 0 whether or not a file stem is given.
C26_TreeWithoutStem ==
    pc = "exit" /\ TreeCommand /\ WellFormed /\ ~CreateFailed
        => /\ exitCode = EXIT_SUCCESS
           /\ treeOut = TreeOfText(MainText(grammar))

\* C26: the file stem is required with --tree as without.  With --tree or
\* -t, a well-formed grammar and no file stem the program prints "missing
\* parameter, see --help" and exits with EXIT_FAILURE, standard input
\* unread and no tree dumped; with a file stem, and the two output files
\* created, it dumps the tree, writes no table and exits with EXIT_SUCCESS.
C26_TreeNeedsStem ==
    pc = "exit" /\ TreeCommand /\ WellFormed /\ ~CreateFailed
        => IF StemsGiven = { }
           THEN /\ exitCode = EXIT_FAILURE
                /\ err = "missing parameter, see --help"
                /\ stdin = MainText(grammar) /\ treeOut = << >>
           ELSE /\ exitCode = EXIT_SUCCESS /\ err = NoErr
                /\ treeOut = TreeOfText(MainText(grammar))
                /\ hdr = << >> /\ out = << >> /\ rows = << >>

\* The program has ended on --tree or -t without a file stem, standard
\* input holding a well-formed grammar.
C26_Witness ==
    pc = "exit" /\ TreeCommand /\ WellFormed /\ StemsGiven = { }

\* ------------------------------------------------------------------------
\* C27
\* ------------------------------------------------------------------------

\* The references to a node: the branch slots of the tree that hold it,
\* and the variable tree for the root.
References(node) ==
    Cardinality(SlotsTo(heap, tree, node)) + (IF node = tree THEN 1 ELSE 0)

\* C27: after deduplicate_literals every node reachable from the root has
\* a refCnt of at least 1, equal to the number of slots that refer to it.
C27_RefCntCountsSlots ==
    Deduplicated
        => \A n \in Reachable(heap, tree) :
               heap[n].refCnt >= 1 /\ heap[n].refCnt = References(n)

\* ------------------------------------------------------------------------
\* C28
\* ------------------------------------------------------------------------

\* The upper-case words of the inputs that are no keyword.
FailedWords ==
    { Str(<< "T", "O", "K" >>), Str(<< "T" >>), Str(<< "B", "Y", "T" >>),
      Str(<< "B", "Y", "T", "E", "S" >>) }

\* The tokens of the input that are such words.
FailedAt ==
    { k \in 1..Len(grammar.tokens) : grammar.tokens[k] \in FailedWords }

\* The values the reader delivers from a state on: ch, then the ch of
\* every further rdch(), up to and including the first EOF.
RECURSIVE Delivered(_)
Delivered(s) ==
    IF s.ch = EOF THEN << EOF >> ELSE << s.ch >> \o Delivered(rdch(s))

\* What the reader of this run delivers from here on (were the parser to
\* go on reading after a report).
DeliveredNow == Delivered([ FrontEnd EXCEPT !.err = NoErr ])

\* What a reader delivers that starts on the k-th token of the input.
DeliveredFrom(k) ==
    Delivered(rdch(FrontEnd0(
        JoinTokens(grammar.tokens, grammar.at, grammar.sep, k))))

\* The parser has tried a keyword on the word and has put it back: the
\* reader stands on its first character again, the rest in the buffer.
KeywordPutBack(k) ==
    /\ InputRead /\ pbbuf # << >>
    /\ ch = grammar.tokens[k][1]
    /\ \A j \in (k + 1)..Len(grammar.tokens) :
           grammar.tokens[j] = Str(<< "?" >>) \/ grammar.tokens[j] = Dot

\* C28: when keyword recognition has failed on a word, the reader
\* delivers from then on, end of file included, what it would have
\* delivered from the first character of the word had the keyword not
\* been tried.
C28_PutBackRestoresStream ==
    \A k \in FailedAt :
        KeywordPutBack(k) => DeliveredNow = DeliveredFrom(k)
====
